---- MODULE Spec2Model ----
(***************************************************************************)
(* ass-processor-lib: the directory cache (TempDirCache), the glob         *)
(* resolver (getFilesByGlob / getUniqueFileByGlob), the scoped temporary   *)
(* directory (withTempDir) and the batch driver (BatchProcessor).          *)
(*                                                                         *)
(* JavaScript runs one continuation at a time: every action below is the   *)
(* code between two awaits.  The outcome of an awaited file-system or      *)
(* subprocess call is an input of the action (\E ok \in BOOLEAN).          *)
(***************************************************************************)
EXTENDS Integers, Sequences, FiniteSets, TLC

\* ------------------------------------------------------------------ bounds
MaxJobs == 3        \* longest job list handed to process()
MaxFonts == 2       \* longest fontDir list of one job
NumSources == 2     \* distinct canonical source paths
MaxListing == 3     \* longest directory listing handed to the glob resolver

Sources == 1..NumSources

\* ------------------------------------------------------- glob resolver

GlobDirs == {"", "sc"}
GlobExts == {"ass", "mkv"}
GlobFiles == [dir : GlobDirs, idx : 1..2, ext : GlobExts]
GlobPatterns == [dir : GlobDirs \cup {"**"}, idx : 0..2, ext : GlobExts]

\* basename(f): the last path segment, i.e. the path without its directory.
Basename(f) == <<f.idx, f.ext>>

\* fast-glob with onlyFiles/cwd/absolute: the files under the directory whose
\* relative path matches the pattern; idx 0 stands for '*', dir "**" for any
\* depth.
GlobMatches(f, p) ==
    /\ p.dir = "**" \/ f.dir = p.dir
    /\ p.idx = 0 \/ f.idx = p.idx
    /\ f.ext = p.ext

\* getFilesByGlob(dir, pattern): the matches, in directory-listing order.
getFilesByGlob(listing, pattern) ==
    SelectSeq(listing, LAMBDA f : GlobMatches(f, pattern))

\* files.map((f) => `  - ${basename(f)}`)
RECURSIVE FileList(_)
FileList(files) ==
    IF files = <<>> THEN <<>>
    ELSE <<Basename(Head(files))>> \o FileList(Tail(files))

NoFile == [dir |-> "", idx |-> 0, ext |-> ""]

\* A mutant of getUniqueFileByGlob: several matches yield the first one.
getUniqueFileByGlob_first(listing, glob) ==
    LET files == getFilesByGlob(listing, glob) IN
    IF Len(files) = 0
    THEN [ok |-> FALSE, file |-> NoFile, error |-> "glob:none", names |-> <<>>]
    ELSE [ok |-> TRUE, file |-> files[1], error |-> "", names |-> <<>>]

\* getUniqueFileByGlob(dir, glob): the single match, or an error; the error
\* for several matches carries the list of their base names.
getUniqueFileByGlob(listing, glob) ==
    LET files == getFilesByGlob(listing, glob) IN
    IF Len(files) = 0
    THEN [ok |-> FALSE, file |-> NoFile, error |-> "glob:none", names |-> <<>>]
    ELSE IF Len(files) > 1
    THEN [ok |-> FALSE, file |-> NoFile, error |-> "glob:multiple",
          names |-> FileList(files)]
    ELSE [ok |-> TRUE, file |-> files[1], error |-> "", names |-> <<>>]

\* Directory listings: sequences of distinct files, up to MaxListing long.
Listings ==
    {l \in UNION {[1..k -> GlobFiles] : k \in 0..MaxListing} :
        \A a, b \in DOMAIN l : a # b => l[a] # l[b]}

\* The three kinds of directory a job's glob can meet: no match, one match,
\* several matches (pattern '*.ass' at top level).
JobPattern == [dir |-> "", idx |-> 0, ext |-> "ass"]
JobListings ==
    { <<[dir |-> "", idx |-> 1, ext |-> "mkv"]>>,
      <<[dir |-> "", idx |-> 1, ext |-> "ass"]>>,
      <<[dir |-> "", idx |-> 1, ext |-> "ass"],
        [dir |-> "", idx |-> 2, ext |-> "ass"]>> }

\* ------------------------------------------------------------ TempDirCache

\* stat.isFile && isArchiveFile(absolutePath): a property of the source.
IsArchive(src) == src % 2 = 1

\* cacheKey = `${mode}:${absolutePath}`
CacheKey(src) == <<IF IsArchive(src) THEN "extract" ELSE "copy", src>>

NoDir == <<0, 0>>

VARIABLES
    \* TempDirCache fields
    cache,          \* Map<cacheKey, subDir>
    rootTempDir,    \* 0 = null, else the id of the Cache Root
    subDirCount,
    \* the file system
    fsRoots,        \* Cache Root directories that exist on disk
    fsSubDirs,      \* Prepared Directories <<root, name>> that exist on disk
    fsTemp,         \* temporary output directories that exist on disk
    nextId,         \* source of fresh names (makeTempDir, ulid)
    \* BatchProcessor fields
    options,        \* [disableLog, logFile]
    binPath,        \* TRUE once ensureAssfontsInstalled() has returned
    logFile,        \* "" (undefined), "explicit" or "generated"
    initialized,
    log,            \* content of the log file, a sequence of blocks
    \* the activation of process()
    pc, items, i, results, successCount, failCount, pending, outcome,
    run,            \* calls of process() so far
    \* the activation of processOne()
    reqs,           \* getOrPrepare calls in flight
    actualFontDirs, tempOutputDir, jobErr,
    \* observations
    created,        \* Cache Roots created before process() returned or threw
    returned,       \* <<key, dir, how>> returned since the last cleanup()
    overlapped,     \* keys requested while a request for them was in flight
    rmFailed,       \* directories whose Deno.remove threw
    cleaned,        \* Cache Roots cleanup() was called on
    toolCalls,      \* [job, out, ok, count, logged]: runs of the external tool
    tempFiles,      \* files in the current tempOutputDir matching '*.assfonts.ass'
    commits,        \* [job, ok]: copy onto the final output path
    attempted,      \* jobs handed to processOne in this process() call
    \* the glob resolver under test
    globListing, globPattern, globResult,
    \* one invocation of the archive extraction engine
    exEntry,        \* "main", "extractWith7z" or "extractTarGzInVfs"
    exArchive,      \* the archive: what its stages yield
    exStage,        \* "try", "finally" or "end"
    exPos,          \* the statement of the block that runs next
    exDirs,         \* directories of the virtual file system made by the call
    exMounts,       \* mount points that are mounted
    exCwd,          \* FS.cwd()
    exTmp,          \* entries of tmpDir (memory-backed)
    exDest,         \* name -> mode of the entries in the destination
    exErr,          \* the error thrown in the try block, <<>> if none
    exTarCount,     \* entries found in tmpDir after the gzip stage, -1 before
    exEnvFail,      \* a teardown call was refused by the virtual file system
    \* the derivation of the output file name
    videoBasename, outputSuffix, outputFilename,
    \* getOrPrepare calls made one after the other, with directory contents
    srcFiles,       \* the files under the source path
    dirFiles,       \* Prepared Directory -> the files in it
    lastPrep,       \* the last call: [src, allowed, dir, how]
    prepCount,      \* calls made
    \* one call of download()
    dlPc,           \* the await the call is suspended at
    dlCaller,       \* "installer" (downloadAssfonts) or "client"
    dlTimeout,      \* options.timeout in ticks, 0 when it is not given
    dlTimer,        \* "none", "armed", "fired" or "cleared"
    dlElapsed,      \* ticks since the timer was armed
    dlAborted,      \* controller.signal.aborted
    dlStatus,       \* status of the response, 0 before there is one
    dlChunks,       \* chunks of the body still to be piped
    dlResult,       \* "none", "ok", "timeout", "http" or "other"
    \* one call of withMountedDmg()
    dmPc,           \* the await the call is suspended at
    dmCallback,     \* the callback: [steps, outcome]
    dmEvents,       \* what was attempted so far, in order
    dmAttached,     \* the image is attached at the mount point
    dmMountPoint,   \* the temporary mount point exists
    dmInner,        \* how the callback of withTempDir completed
    dmResult,       \* what the caller of withMountedDmg gets
    dmWarned,       \* consola.warn was called for a failed detach
    dmRmFailed,     \* Deno.remove of the mount point threw
    \* jobs of one batch with the contents of the files they touch
    ctPc,           \* the step of processOne that runs next
    ctJob,          \* the job under way: [font, sub, transform, out]
    ctCount,        \* jobs handed to processOne so far
    ctTree,         \* place -> the files under it (sources, output directories)
    ctVideos,       \* output directory -> files matching the job's videoGlob
    ctPrepared,     \* cache key -> the files of its Prepared Directory
    ctSubDir,       \* actualSubtitleDir, as a cache key
    ctEvents,       \* what the job under way has done, in order
    ctWrote,        \* the job under way has overwritten its subtitle file
    ctInputs,       \* the texts handed to subtitleTransform
    ctLog,          \* the jobs that ended: [job, stage, error, wrote, outBefore]
    \* observations of failed preparations
    failedDirs,     \* sub-directories whose extraction or copy threw
    prepErr         \* the error the last rejected prepareDirectory call threw

cacheVars == <<cache, rootTempDir, subDirCount>>
fsVars == <<fsRoots, fsSubDirs, fsTemp, nextId>>
procVars == <<options, binPath, logFile, initialized, log>>
batchVars == <<pc, items, i, results, successCount, failCount, pending, outcome,
               run>>
jobVars == <<reqs, actualFontDirs, tempOutputDir, jobErr>>
obsVars == <<created, returned, overlapped, rmFailed, cleaned, toolCalls,
             tempFiles, commits, attempted>>
globVars == <<globListing, globPattern, globResult>>
engineVars == <<exEntry, exArchive, exStage, exPos, exDirs, exMounts, exCwd,
                exTmp, exDest, exErr, exTarCount, exEnvFail>>
driverVars == <<cacheVars, fsVars, procVars, batchVars, jobVars, obsVars>>
nameVars == <<videoBasename, outputSuffix, outputFilename>>
prepVars == <<srcFiles, dirFiles, lastPrep, prepCount>>
downloadVars == <<dlPc, dlCaller, dlTimeout, dlTimer, dlElapsed, dlAborted,
                  dlStatus, dlChunks, dlResult>>
dmgVars == <<dmPc, dmCallback, dmEvents, dmAttached, dmMountPoint, dmInner,
             dmResult, dmWarned, dmRmFailed>>
failureVars == <<failedDirs, prepErr>>
contentVars == <<ctPc, ctJob, ctCount, ctTree, ctVideos, ctPrepared, ctSubDir,
                 ctEvents, ctWrote, ctInputs, ctLog>>
sideVars == <<downloadVars, dmgVars, contentVars>>
utilVars == <<sideVars, failureVars>>
pureVars == <<globVars, engineVars, nameVars, prepVars, utilVars>>
vars == <<driverVars, pureVars>>

NoOutcome == [kind |-> "none", message |-> <<>>, results |-> <<>>]
NoGlobResult == [ok |-> FALSE, file |-> NoFile, error |-> "", names |-> <<>>]

InitCommon ==
    /\ cache = <<>>
    /\ rootTempDir = 0
    /\ subDirCount = 0
    /\ fsRoots = {}
    /\ fsSubDirs = {}
    /\ fsTemp = {}
    /\ nextId = 1
    /\ binPath = FALSE
    /\ initialized = FALSE
    /\ log = <<>>
    /\ pc = "idle"
    /\ items = 0
    /\ run = 0
    /\ i = 0
    /\ results = <<>>
    /\ successCount = 0
    /\ failCount = 0
    /\ pending = NoOutcome
    /\ outcome = NoOutcome
    /\ reqs = <<>>
    /\ actualFontDirs = <<>>
    /\ tempOutputDir = 0
    /\ jobErr = ""
    /\ created = {}
    /\ returned = {}
    /\ overlapped = {}
    /\ rmFailed = {}
    /\ cleaned = {}
    /\ toolCalls = {}
    /\ tempFiles = 0
    /\ commits = {}
    /\ attempted = {}

\* No call of the glob resolver under test.
GlobIdle ==
    /\ globListing = <<>>
    /\ globPattern = JobPattern
    /\ globResult = NoGlobResult

\* No invocation of the extraction engine.
EngineIdle ==
    /\ exEntry = "none"
    /\ exArchive = [gz |-> 0, files |-> <<>>]
    /\ exStage = "end"
    /\ exPos = 1
    /\ exDirs = {}
    /\ exMounts = {}
    /\ exCwd = "/"
    /\ exTmp = {}
    /\ exDest = <<>>
    /\ exErr = <<>>
    /\ exTarCount = -1
    /\ exEnvFail = FALSE

\* No output file name is being derived.
NameIdle ==
    /\ videoBasename = <<>>
    /\ outputSuffix = <<>>
    /\ outputFilename = <<>>

NoPrep == [src |-> 0, allowed |-> {}, dir |-> NoDir, how |-> "none"]

\* No getOrPrepare call with tracked contents.
PrepIdle ==
    /\ srcFiles = {}
    /\ dirFiles = <<>>
    /\ lastPrep = NoPrep
    /\ prepCount = 0

\* No call of download().
DownloadIdle ==
    /\ dlPc = "idle"
    /\ dlCaller = "none"
    /\ dlTimeout = 0
    /\ dlTimer = "none"
    /\ dlElapsed = 0
    /\ dlAborted = FALSE
    /\ dlStatus = 0
    /\ dlChunks = 0
    /\ dlResult = "none"

NoError == [message |-> <<>>, cause |-> ""]

\* No preparation has failed.
NoFailure ==
    /\ failedDirs = {}
    /\ prepErr = NoError

Pending == [kind |-> "none", value |-> 0, cause |-> ""]

\* No call of withMountedDmg().
DmgIdle ==
    /\ dmPc = "idle"
    /\ dmCallback = [steps |-> 0, outcome |-> Pending]
    /\ dmEvents = <<>>
    /\ dmAttached = FALSE
    /\ dmMountPoint = FALSE
    /\ dmInner = Pending
    /\ dmResult = Pending
    /\ dmWarned = FALSE
    /\ dmRmFailed = FALSE

NoJob == [font |-> 0, sub |-> 0, transform |-> FALSE, out |-> 0]

\* No job with tracked contents.
ContentIdle ==
    /\ ctPc = "idle"
    /\ ctJob = NoJob
    /\ ctCount = 0
    /\ ctTree = <<>>
    /\ ctVideos = <<>>
    /\ ctPrepared = <<>>
    /\ ctSubDir = <<>>
    /\ ctEvents = <<>>
    /\ ctWrote = FALSE
    /\ ctInputs = {}
    /\ ctLog = <<>>

UtilIdle == DownloadIdle /\ DmgIdle /\ ContentIdle /\ NoFailure

\* new BatchProcessor(options): this.logFile = this.options.logFile || undefined
Init ==
    /\ InitCommon
    /\ options \in [disableLog : BOOLEAN, logFile : {"", "explicit"}]
    /\ logFile = options.logFile
    /\ GlobIdle
    /\ EngineIdle
    /\ NameIdle
    /\ PrepIdle
    /\ UtilIdle

\* A BatchProcessor with the default options that is never asked to process.
DriverIdle ==
    /\ InitCommon
    /\ options = [disableLog |-> FALSE, logFile |-> ""]
    /\ logFile = ""

\* --------------------------------------------- TempDirCache.getOrPrepare

InFlight(q) == q.pc \notin {"done", "failed"}

NewRequest(src) ==
    [src |-> src, pc |-> "start", root |-> 0, dir |-> NoDir, live |-> TRUE,
     err |-> ""]

RemoveAt(s, r) == SubSeq(s, 1, r - 1) \o SubSeq(s, r + 1, Len(s))

\* The request in slot r moves on to q2.  A request nobody awaits any more
\* (its job has already failed) disappears once it has settled.
PutReq(r, q2) ==
    reqs' = IF ~q2.live /\ ~InFlight(q2) THEN RemoveAt(reqs, r)
            ELSE [reqs EXCEPT ![r] = q2]

\* A mutant of CacheSet: the mapping is not stored.
CacheSet_skip(c, key, dir) == c

\* this.cache.set(cacheKey, subDir)
CacheSet(c, key, dir) ==
    [k \in DOMAIN c \cup {key} |-> IF k = key THEN dir ELSE c[k]]

\* getOrPrepare up to its first suspension after the cache lookup:
\* realPath/stat/isArchiveFile, the lookup, and on a miss the entry into
\* createSubDir -> ensureRootDir, which tests this.rootTempDir.
ReqCheck(r) ==
    LET q == reqs[r]
        key == CacheKey(q.src) IN
    /\ q.pc = "start"
    /\ \E statOk \in BOOLEAN :
        IF ~statOk
        THEN /\ PutReq(r, [q EXCEPT !.pc = "failed", !.err = "stat"])
             /\ UNCHANGED returned
        ELSE IF key \in DOMAIN cache
        THEN /\ PutReq(r, [q EXCEPT !.pc = "done", !.dir = cache[key]])
             /\ returned' = returned \cup {<<key, cache[key], "hit">>}
        ELSE /\ PutReq(r, IF rootTempDir = 0
                          THEN [q EXCEPT !.pc = "makeRoot"]
                          ELSE [q EXCEPT !.pc = "mkSub", !.root = rootTempDir])
             /\ UNCHANGED returned
    /\ UNCHANGED <<cacheVars, fsVars, procVars, batchVars, actualFontDirs,
                   tempOutputDir, jobErr, created, overlapped, rmFailed, cleaned,
                   toolCalls, tempFiles, commits, attempted, pureVars>>

\* ensureRootDir after its test found no root: Deno.makeTempDir settles, the
\* result is assigned to this.rootTempDir and returned.
ReqMakeRoot(r) ==
    LET q == reqs[r] IN
    /\ q.pc = "makeRoot"
    /\ \E ok \in BOOLEAN :
        IF ok
        THEN /\ rootTempDir' = nextId
             /\ fsRoots' = fsRoots \cup {nextId}
             /\ created' = IF pc = "done" THEN created ELSE created \cup {nextId}
             /\ nextId' = nextId + 1
             /\ PutReq(r, [q EXCEPT !.pc = "mkSub", !.root = nextId])
        ELSE /\ PutReq(r, [q EXCEPT !.pc = "failed", !.err = "makeTempDir"])
             /\ UNCHANGED <<rootTempDir, fsRoots, created, nextId>>
    /\ UNCHANGED <<cache, subDirCount, fsSubDirs, fsTemp, procVars, batchVars,
                   actualFontDirs, tempOutputDir, jobErr, returned,
                   overlapped, rmFailed, cleaned, toolCalls, tempFiles, commits,
                   attempted, pureVars>>

\* createSubDir: subDir = join(rootDir, ulid()); ensureDir(subDir) settles
\* (a recursive mkdir: it also creates a missing parent); subDirCount++.
\* getOrPrepare then starts the extraction or the copy.
ReqMkSub(r) ==
    LET q == reqs[r] IN
    /\ q.pc = "mkSub"
    /\ \E ok \in BOOLEAN :
        IF ok
        THEN /\ fsSubDirs' = fsSubDirs \cup {<<q.root, nextId>>}
             /\ fsRoots' = fsRoots \cup {q.root}
             /\ nextId' = nextId + 1
             /\ subDirCount' = subDirCount + 1
             /\ PutReq(r, [q EXCEPT !.pc = "extract", !.dir = <<q.root, nextId>>])
        ELSE /\ PutReq(r, [q EXCEPT !.pc = "failed", !.err = "ensureDir"])
             /\ UNCHANGED <<fsSubDirs, fsRoots, nextId, subDirCount>>
    /\ UNCHANGED <<cache, rootTempDir, fsTemp, procVars, batchVars,
                   actualFontDirs, tempOutputDir, jobErr, obsVars, pureVars>>

\* this.cache.set(cacheKey, subDir) comes after the awaited extraction or
\* copy: it runs only when that did not throw.
Stored(ok) == ok

\* extractArchive / filteredCopy / copy settles; on success the mapping is
\* stored and the sub-directory returned.
ReqExtract(r) ==
    LET q == reqs[r]
        key == CacheKey(q.src) IN
    /\ q.pc = "extract"
    /\ \E ok \in BOOLEAN :
        IF Stored(ok)
        THEN /\ cache' = CacheSet(cache, key, q.dir)
             /\ returned' = returned \cup {<<key, q.dir, "miss">>}
             /\ PutReq(r, [q EXCEPT !.pc = "done"])
             /\ UNCHANGED failedDirs
        ELSE /\ PutReq(r, [q EXCEPT !.pc = "failed", !.err = "extract"])
             /\ failedDirs' = failedDirs \cup {q.dir}
             /\ UNCHANGED <<cache, returned>>
    /\ UNCHANGED <<rootTempDir, subDirCount, fsVars, procVars, batchVars,
                   actualFontDirs, tempOutputDir, jobErr, created,
                   overlapped, rmFailed, cleaned, toolCalls, tempFiles, commits,
                   attempted, globVars, engineVars, nameVars, prepVars,
                   sideVars, prepErr>>

\* TempDirCache.cleanup(): remove the root (errors swallowed), clear the map.
CacheCleanup(rmOk) ==
    /\ IF rootTempDir # 0 /\ rmOk
       THEN /\ fsRoots' = fsRoots \ {rootTempDir}
            /\ fsSubDirs' = {d \in fsSubDirs : d[1] # rootTempDir}
            /\ UNCHANGED rmFailed
       ELSE /\ UNCHANGED <<fsRoots, fsSubDirs>>
            /\ rmFailed' = IF rootTempDir # 0
                           THEN rmFailed \cup {rootTempDir} ELSE rmFailed
    /\ cleaned' = IF rootTempDir # 0 THEN cleaned \cup {rootTempDir} ELSE cleaned
    /\ cache' = <<>>
    /\ rootTempDir' = 0
    /\ subDirCount' = 0

\* ------------------------------------------------------------ BatchProcessor

FontLists == UNION {[1..k -> Sources] : k \in 1..MaxFonts}

Success == [success |-> TRUE, error |-> ""]
Failure(msg) == [success |-> FALSE, error |-> msg]

Block(t, x, y, z) == [t |-> t, x |-> x, y |-> y, z |-> z]

Returned(res) == [kind |-> "returned", message |-> <<>>, results |-> res]
\* throw new Error(message): the error object carries a message and nothing else.
Thrown(msg) == [kind |-> "thrown", message |-> msg, results |-> <<>>]

\* `批处理失败: ${failCount} 个任务失败`
AggregateMessage(fc) == <<"batch failed:", ToString(fc), "tasks failed">>

\* The requests a failed job leaves behind: Promise.all rejects on the first
\* rejection and the remaining getOrPrepare calls run on unobserved.
Orphaned(s) ==
    LET t == SelectSeq(s, InFlight) IN
    [k \in 1..Len(t) |-> [t[k] EXCEPT !.live = FALSE]]

Live(s) == SelectSeq(s, LAMBDA q : q.live)

KeysInFlight(s) == {CacheKey(s[k].src) : k \in {j \in DOMAIN s : InFlight(s[j])}}

\* A mutant of Break: the loop goes on after a failed job.
Break_never(success) == FALSE

\* if (result.success) successCount++ else { failCount++; break }
Break(success) == ~success

\* process(): ensureBinPath, initLogFile, then the locals of the loop.
Process(n) ==
    /\ pc = "idle"
    /\ items' = n
    /\ run' = run + 1
    /\ i' = 0
    /\ results' = <<>>
    /\ successCount' = 0
    /\ failCount' = 0
    /\ pending' = NoOutcome
    /\ \E binOk, logOk \in BOOLEAN :
        IF ~binPath /\ ~binOk
        THEN \* ensureAssfontsInstalled() threw
             /\ outcome' = Thrown(<<"install failed">>)
             /\ pc' = "done"
             /\ UNCHANGED <<binPath, logFile, initialized, log>>
        ELSE /\ binPath' = TRUE
             /\ IF initialized \/ options.disableLog
                THEN \* initLogFile returns at once
                     /\ pc' = IF n = 0 THEN "summary" ELSE "loop"
                     /\ outcome' = NoOutcome
                     /\ UNCHANGED <<logFile, initialized, log>>
                ELSE /\ logFile' = IF logFile = "" THEN "generated" ELSE logFile
                     /\ IF logOk
                        THEN /\ log' = <<Block("header", n, run + 1, 0)>>
                             /\ initialized' = TRUE
                             /\ pc' = IF n = 0 THEN "summary" ELSE "loop"
                             /\ outcome' = NoOutcome
                        ELSE \* writeLines threw
                             /\ outcome' = Thrown(<<"log write failed">>)
                             /\ pc' = "done"
                             /\ UNCHANGED <<initialized, log>>
    /\ UNCHANGED <<cacheVars, fsVars, options, jobVars, obsVars, pureVars>>

\* processOne up to Promise.all(fontDirs.map(prepareDirectory)): every
\* getOrPrepare call runs to its first await.
StartJob(fonts) ==
    /\ pc = "loop"
    /\ attempted' = attempted \cup {i + 1}
    /\ reqs' = reqs \o [k \in 1..Len(fonts) |-> NewRequest(fonts[k])]
    /\ overlapped' = overlapped \cup
          {CacheKey(fonts[k]) : k \in
              {j \in 1..Len(fonts) :
                  \/ CacheKey(fonts[j]) \in KeysInFlight(reqs)
                  \/ \E m \in 1..Len(fonts) :
                        m # j /\ CacheKey(fonts[m]) = CacheKey(fonts[j])}}
    /\ pc' = "fonts"
    /\ UNCHANGED <<cacheVars, fsVars, procVars, items, run, i, results,
                   successCount, failCount, pending, outcome, actualFontDirs,
                   tempOutputDir, jobErr, created, returned, rmFailed, cleaned,
                   toolCalls, tempFiles, commits, pureVars>>

\* The end of processOne and the rest of the loop body in process().
JobEnd(res) ==
    /\ results' = Append(results, res)
    /\ successCount' = successCount + (IF res.success THEN 1 ELSE 0)
    /\ failCount' = failCount + (IF res.success THEN 0 ELSE 1)
    /\ i' = IF Break(res.success) THEN i ELSE i + 1
    /\ pc' = IF ~Break(res.success) /\ i + 1 < items THEN "loop" ELSE "summary"
    /\ reqs' = Orphaned(reqs)
    /\ actualFontDirs' = <<>>
    /\ jobErr' = ""

JobFrame ==
    UNCHANGED <<cacheVars, fsVars, procVars, items, run, pending, outcome,
                tempOutputDir, obsVars, pureVars>>

\* A mutant of FontsReady: one prepared font directory is enough to go on.
FontsReady_any(s) == \E k \in DOMAIN s : s[k].live /\ s[k].pc = "done"

\* await Promise.all(...): fulfilled once every prepareDirectory call is.
FontsReady(s) == \A k \in DOMAIN s : s[k].live => s[k].pc = "done"

\* Promise.all resolved: every font directory is prepared; the subtitle
\* source is requested next.
FontsResolved(sub) ==
    /\ pc = "fonts"
    /\ FontsReady(reqs)
    /\ actualFontDirs' = [k \in 1..Len(Live(reqs)) |-> Live(reqs)[k].dir]
    /\ reqs' = Orphaned(reqs) \o <<NewRequest(sub)>>
    /\ overlapped' = overlapped \cup
          (IF CacheKey(sub) \in KeysInFlight(reqs) THEN {CacheKey(sub)} ELSE {})
    /\ pc' = "sub"
    /\ UNCHANGED <<cacheVars, fsVars, procVars, items, run, i, results,
                   successCount, failCount, pending, outcome, tempOutputDir,
                   jobErr, created, returned, rmFailed, cleaned, toolCalls,
                   tempFiles, commits, attempted, pureVars>>

\* Promise.all rejected: prepareDirectory wrapped the error, processOne
\* caught it.
FontsRejected ==
    /\ pc = "fonts"
    /\ \E k \in DOMAIN reqs : reqs[k].live /\ reqs[k].pc = "failed"
    /\ JobEnd(Failure("prepare failed"))
    /\ JobFrame

SubResolved ==
    /\ pc = "sub"
    /\ \E k \in DOMAIN reqs : reqs[k].live /\ reqs[k].pc = "done"
    /\ reqs' = Orphaned(reqs)
    /\ pc' = "globSub"
    /\ UNCHANGED <<cacheVars, fsVars, procVars, items, run, i, results,
                   successCount, failCount, pending, outcome, actualFontDirs,
                   tempOutputDir, jobErr, obsVars, pureVars>>

SubRejected ==
    /\ pc = "sub"
    /\ \E k \in DOMAIN reqs : reqs[k].live /\ reqs[k].pc = "failed"
    /\ JobEnd(Failure("prepare failed"))
    /\ JobFrame

\* getUniqueFileByGlob(actualSubtitleDir, item.subtitleGlob)
ResolveSubtitle ==
    /\ pc = "globSub"
    /\ \E listing \in JobListings :
        LET r == getUniqueFileByGlob(listing, JobPattern) IN
        IF r.ok
        THEN /\ pc' = "transform"
             /\ UNCHANGED <<i, results, successCount, failCount, reqs,
                            actualFontDirs, jobErr>>
        ELSE JobEnd(Failure(r.error))
    /\ JobFrame

\* if (item.subtitleTransform) read, transform, write back in place
Transform ==
    /\ pc = "transform"
    /\ \E has, ok \in BOOLEAN :
        IF has /\ ~ok
        THEN JobEnd(Failure("transform failed"))
        ELSE /\ pc' = "globVideo"
             /\ UNCHANGED <<i, results, successCount, failCount, reqs,
                            actualFontDirs, jobErr>>
    /\ JobFrame

\* getUniqueFileByGlob(item.outputDir, item.videoGlob)
ResolveVideo ==
    /\ pc = "globVideo"
    /\ \E listing \in JobListings :
        LET r == getUniqueFileByGlob(listing, JobPattern) IN
        IF r.ok
        THEN /\ pc' = "withTemp"
             /\ UNCHANGED <<i, results, successCount, failCount, reqs,
                            actualFontDirs, jobErr>>
        ELSE JobEnd(Failure(r.error))
    /\ JobFrame

\* A mutant of ToolOutputDir: the tool writes into the job's output directory.
ToolOutputDir_final(tempDir, job) == <<"out", job>>

\* processAssSubtitle(binPath, subtitleFile, tempOutputDir, actualFontDirs):
\* the directory handed to the tool as -o.
ToolOutputDir(tempDir, job) == <<"tmp", tempDir>>

\* A mutant of ArtifactError: several artifacts are accepted.
ArtifactError_lax(count) == IF count = 0 THEN "no artifact" ELSE ""

\* processedFiles.length === 0 / > 1
ArtifactError(count) ==
    IF count = 0 THEN "no artifact"
    ELSE IF count > 1 THEN "multiple artifacts"
    ELSE ""

\* ensureDir(item.outputDir), then withTempDir: Deno.makeTempDir({prefix}).
EnterTempDir ==
    /\ pc = "withTemp"
    /\ \E ok \in BOOLEAN :
        IF ok
        THEN /\ tempOutputDir' = nextId
             /\ fsTemp' = fsTemp \cup {nextId}
             /\ nextId' = nextId + 1
             /\ pc' = "tool"
             /\ UNCHANGED <<i, results, successCount, failCount, reqs,
                            actualFontDirs, jobErr>>
        ELSE /\ JobEnd(Failure("mkdir failed"))
             /\ UNCHANGED <<tempOutputDir, fsTemp, nextId>>
    /\ UNCHANGED <<cacheVars, fsRoots, fsSubDirs, procVars, items, run, pending,
                   outcome, obsVars, pureVars>>

\* processAssSubtitle: run the tool, append the job block, throw on failure.
RunTool ==
    /\ pc = "tool"
    /\ \E ok, logOk \in BOOLEAN, count \in 0..2 :
        /\ toolCalls' = toolCalls \cup
              {[job |-> i + 1, out |-> ToolOutputDir(tempOutputDir, i + 1),
                ok |-> ok, count |-> count,
                logged |-> (logFile = "" \/ logOk)]}
        /\ tempFiles' = count
        /\ log' = IF logFile # "" /\ logOk
                  THEN Append(log, Block("job", i + 1, IF ok THEN 1 ELSE 0, run))
                  ELSE log
        /\ jobErr' = IF logFile # "" /\ ~logOk THEN "log write failed"
                     ELSE IF ~ok THEN "tool failed"
                     ELSE ""
        /\ pc' = IF jobErr' = "" THEN "collect" ELSE "leaveTemp"
    /\ UNCHANGED <<cacheVars, fsVars, options, binPath, logFile, initialized,
                   items, run, i, results, successCount, failCount, pending,
                   outcome, reqs, actualFontDirs, tempOutputDir, created,
                   returned, overlapped, rmFailed, cleaned, commits, attempted,
                   pureVars>>

\* getFilesByGlob(tempOutputDir, '*.assfonts.ass'), the cardinality test and
\* copy(processedFile, outputFile, { overwrite: true }).
Collect ==
    /\ pc = "collect"
    /\ \E copyOk \in BOOLEAN :
        IF ArtifactError(tempFiles) # ""
        THEN /\ jobErr' = ArtifactError(tempFiles)
             /\ UNCHANGED commits
        ELSE /\ commits' = commits \cup {[job |-> i + 1, ok |-> copyOk]}
             /\ jobErr' = IF copyOk THEN "" ELSE "copy failed"
    /\ pc' = "leaveTemp"
    /\ UNCHANGED <<cacheVars, fsVars, procVars, items, run, i, results,
                   successCount, failCount, pending, outcome, reqs,
                   actualFontDirs, tempOutputDir, tempFiles, created, returned,
                   overlapped, rmFailed, cleaned, toolCalls, attempted, pureVars>>

\* A mutant of TempDirRemoved: withTempDir leaves the directory behind.
TempDirRemoved_keep(dirs, dir, rmOk) == dirs

\* Deno.remove(tempDir, { recursive: true }) in the finally of withTempDir.
TempDirRemoved(dirs, dir, rmOk) == IF rmOk THEN dirs \ {dir} ELSE dirs

\* A mutant of Swallowed: an error of the cleanup replaces the outcome.
Swallowed_rethrown(own, cleanupError, cleanupOk) ==
    IF cleanupOk THEN own ELSE cleanupError

\* finally { try { <cleanup> } catch { } }: what the caller gets is the
\* outcome the guarded block completed with.
Swallowed(own, cleanupError, cleanupOk) == own

\* The finally of withTempDir (errors swallowed), then the result of
\* processOne and the rest of the loop body.
LeaveTempDir ==
    /\ pc = "leaveTemp"
    /\ \E rmOk \in BOOLEAN :
        /\ fsTemp' = TempDirRemoved(fsTemp, tempOutputDir, rmOk)
        /\ rmFailed' = IF rmOk THEN rmFailed ELSE rmFailed \cup {tempOutputDir}
        /\ JobEnd(Swallowed(IF jobErr = "" THEN Success ELSE Failure(jobErr),
                            Failure("remove failed"), rmOk))
    /\ tempOutputDir' = 0
    /\ tempFiles' = 0
    /\ UNCHANGED cleaned
    /\ UNCHANGED <<cacheVars, fsRoots, fsSubDirs, nextId, procVars, items, run,
                   pending, outcome, created, returned, overlapped,
                   toolCalls, commits, attempted, pureVars>>

\* A mutant of BatchOutcome: a batch with a failed job returns its results.
BatchOutcome_lenient(fc, res) == Returned(res)

\* if (failCount > 0) throw new Error(...); return { results, logFile }
BatchOutcome(fc, res) ==
    IF fc > 0 THEN Thrown(AggregateMessage(fc)) ELSE Returned(res)

\* After the loop: writeLogSummary, then throw or return; the finally is
\* still to run.
WriteSummary ==
    /\ pc = "summary"
    /\ \E logOk \in BOOLEAN :
        IF logFile # "" /\ ~logOk
        THEN /\ pending' = Thrown(<<"log write failed">>)
             /\ UNCHANGED log
        ELSE /\ log' = IF logFile # ""
                       THEN Append(log, Block("summary", successCount, failCount,
                                          items - successCount - failCount))
                       ELSE log
             /\ pending' = BatchOutcome(failCount, results)
    /\ pc' = "cleanup"
    /\ UNCHANGED <<cacheVars, fsVars, options, binPath, logFile, initialized,
                   items, run, i, results, successCount, failCount, outcome,
                   jobVars, obsVars, pureVars>>

\* finally { await this.cleanup() }: BatchProcessor.cleanup ->
\* TempDirCache.cleanup; then process() returns or throws.
Cleanup ==
    /\ pc = "cleanup"
    /\ \E rmOk \in BOOLEAN :
        /\ CacheCleanup(rmOk)
        /\ outcome' = Swallowed(pending, Thrown(<<"remove failed">>), rmOk)
    /\ returned' = {}
    /\ pc' = "done"
    /\ UNCHANGED <<fsTemp, nextId, procVars, items, run, i, results, successCount,
                   failCount, pending, jobVars, created, overlapped, toolCalls,
                   tempFiles, commits, attempted, pureVars>>

\* The continuations of a process() call that is under way.
Steps ==
    \/ \E r \in DOMAIN reqs : ReqCheck(r)
    \/ \E r \in DOMAIN reqs : ReqMakeRoot(r)
    \/ \E r \in DOMAIN reqs : ReqMkSub(r)
    \/ \E r \in DOMAIN reqs : ReqExtract(r)
    \/ \E sub \in Sources : FontsResolved(sub)
    \/ FontsRejected
    \/ SubResolved
    \/ SubRejected
    \/ ResolveSubtitle
    \/ Transform
    \/ ResolveVideo
    \/ EnterTempDir
    \/ RunTool
    \/ Collect
    \/ LeaveTempDir
    \/ WriteSummary
    \/ Cleanup

Next ==
    \/ \E n \in 0..MaxJobs : Process(n)
    \/ \E fonts \in FontLists : StartJob(fonts)
    \/ Steps

Spec == Init /\ [][Next]_vars

\* ------------------------------- process() called again on the instance

MaxRuns == 2        \* calls of process() on one BatchProcessor
MaxRunJobs == 1     \* longest job list of a call when several calls are made

\* The caller has seen process() settle and calls it again on the same
\* BatchProcessor; what was observed of the call before is dropped.
CallAgain ==
    /\ pc = "done"
    /\ run < MaxRuns
    /\ pc' = "idle"
    /\ attempted' = {}
    /\ toolCalls' = {}
    /\ commits' = {}
    /\ created' = {}
    /\ rmFailed' = {}
    /\ overlapped' = KeysInFlight(reqs)
    /\ UNCHANGED <<cacheVars, fsVars, procVars, items, run, i, results,
                   successCount, failCount, pending, outcome, jobVars,
                   returned, cleaned, tempFiles, pureVars>>

\* Every job names one font source.
RunsNext ==
    \/ \E n \in 0..MaxRunJobs : Process(n)
    \/ CallAgain
    \/ \E src \in Sources : StartJob(<<src>>)
    \/ Steps

\* new BatchProcessor(): the default options.
RunsInit ==
    /\ DriverIdle
    /\ GlobIdle
    /\ EngineIdle
    /\ NameIdle
    /\ PrepIdle
    /\ UtilIdle

RunsSpec == RunsInit /\ [][RunsNext]_vars

\* ----------------------------------- one TempDirCache and its caller
\* The cache as BatchProcessor uses it: a group of getOrPrepare calls is
\* awaited together (Promise.all), the await settles when every call has
\* fulfilled or one has rejected, and cleanup() is called when the caller
\* awaits nothing, whether or not calls of a rejected group still run.

MaxCacheCalls == 3  \* getOrPrepare calls made on the cache

AnyLive(s) == \E k \in DOMAIN s : s[k].live

\* fontDirs.length > 1 ? `字体${idx + 1}` : '字体', for the k-th request of
\* the group that is awaited.
Description(s, k) ==
    LET group == {j \in DOMAIN s : s[j].live}
        idx == Cardinality({j \in group : j < k}) IN
    IF Cardinality(group) > 1 THEN <<"font", idx + 1>> ELSE <<"font">>

\* prepareDirectory's catch:
\* new Error(`${description} "${path}" 准备失败`, { cause: error })
PrepareError(description, path, cause) ==
    [message |-> <<description, path>>, cause |-> cause]

\* Promise.all(srcs.map(getOrPrepare)): every call runs to its first await.
CacheRequests(srcs) ==
    /\ ~AnyLive(reqs)
    /\ prepCount + Len(srcs) <= MaxCacheCalls
    /\ prepCount' = prepCount + Len(srcs)
    /\ reqs' = reqs \o [k \in 1..Len(srcs) |-> NewRequest(srcs[k])]
    /\ UNCHANGED <<cacheVars, fsVars, procVars, batchVars, actualFontDirs,
                   tempOutputDir, jobErr, obsVars, globVars, engineVars,
                   nameVars, utilVars, srcFiles, dirFiles, lastPrep>>

\* The await settles: fulfilled when every call is, rejected with the first
\* rejection; the calls still running are no longer awaited.
CacheSettle ==
    /\ AnyLive(reqs)
    /\ \/ /\ FontsReady(reqs)
          /\ UNCHANGED prepErr
       \/ \E k \in DOMAIN reqs :
             /\ reqs[k].live /\ reqs[k].pc = "failed"
             /\ prepErr' = PrepareError(Description(reqs, k), reqs[k].src,
                                        reqs[k].err)
    /\ reqs' = Orphaned(reqs)
    /\ UNCHANGED <<cacheVars, fsVars, procVars, batchVars, actualFontDirs,
                   tempOutputDir, jobErr, obsVars, globVars, engineVars,
                   nameVars, prepVars, sideVars, failedDirs>>

\* await this.cache.cleanup()
CacheCleanupCall ==
    /\ ~AnyLive(reqs)
    /\ \E rmOk \in BOOLEAN : CacheCleanup(rmOk)
    /\ returned' = {}
    /\ UNCHANGED <<fsTemp, nextId, procVars, batchVars, jobVars, created,
                   overlapped, toolCalls, tempFiles, commits, attempted,
                   pureVars>>

CacheNext ==
    \/ \E srcs \in FontLists : CacheRequests(srcs)
    \/ \E r \in DOMAIN reqs : ReqCheck(r)
    \/ \E r \in DOMAIN reqs : ReqMakeRoot(r)
    \/ \E r \in DOMAIN reqs : ReqMkSub(r)
    \/ \E r \in DOMAIN reqs : ReqExtract(r)
    \/ CacheSettle
    \/ CacheCleanupCall

CacheSpec == RunsInit /\ [][CacheNext]_vars

\* ------------------------------------------- the glob resolver on its own

GlobInit ==
    /\ DriverIdle
    /\ EngineIdle
    /\ NameIdle
    /\ PrepIdle
    /\ globListing \in Listings
    /\ globPattern \in GlobPatterns
    /\ globResult = NoGlobResult
    /\ UtilIdle

GlobResolve ==
    /\ globResult = NoGlobResult
    /\ globResult' = getUniqueFileByGlob(globListing, globPattern)
    /\ UNCHANGED <<driverVars, globListing, globPattern, engineVars, nameVars,
                   utilVars,
                   prepVars>>

GlobNext == GlobResolve

GlobSpec == GlobInit /\ [][GlobNext]_vars

\* ---------------------------------------- the archive extraction engine
\* One invocation of extractWith7z, of extractTarGzInVfs, or of the 7z
\* command-line main().  The code between try and the end of finally is
\* synchronous; it is taken statement by statement, each call of the virtual
\* file system either succeeding or throwing.

MaxEntries == 2     \* entries of an archive
MaxGz == 2          \* most entries the gzip stage leaves in the intermediate area

Entries == 1..MaxEntries

\* sevenZip.FS.chmod as the module provides it.
chmodOrig(prior, mode) == mode

\* The replacement main() installs: if (!mode) return; chmodOrig(path, mode).
chmodPatched(prior, mode) == IF mode = 0 THEN prior ELSE chmodOrig(prior, mode)

\* FS.chmod of the module instance an entry point works with: main() patches
\* its instance, extractWith7z and extractTarGzInVfs use `await SevenZip()`
\* as it comes.
FSchmod(entry, prior, mode) ==
    IF entry = "main" THEN chmodPatched(prior, mode) ELSE chmodOrig(prior, mode)

\* The statements of the try block: <<FS call, argument>>.
TrySteps(entry) ==
    IF entry = "extractWith7z"
    THEN << <<"mkdir", "src">>, <<"mkdir", "dest">>,
            <<"mount", "src">>, <<"mount", "dest">>,
            <<"chdir", "dest">>, <<"callMain", "x">> >>
    ELSE IF entry = "extractTarGzInVfs"
    THEN << <<"mkdir", "src">>, <<"mkdir", "dest">>, <<"mkdir", "tmp">>,
            <<"mount", "src">>, <<"mount", "dest">>,
            <<"chdir", "tmp">>, <<"callMain", "gzip">>, <<"findTar", "tmp">>,
            <<"chdir", "dest">>, <<"callMain", "tar">> >>
    ELSE << <<"mkdir", "nodefs">>, <<"mount", "nodefs">>,
            <<"chdir", "nodefs">>, <<"callMain", "x">> >>

\* The statements of the finally block, all inside one try/catch.
FinallySteps(entry) ==
    IF entry = "extractWith7z"
    THEN << <<"chdir", "/">>, <<"unmount", "src">>, <<"unmount", "dest">>,
            <<"rmdir", "src">>, <<"rmdir", "dest">> >>
    ELSE IF entry = "extractTarGzInVfs"
    THEN << <<"chdir", "/">>, <<"clearTmp", "tmp">>,
            <<"unmount", "src">>, <<"unmount", "dest">>,
            <<"rmdir", "src">>, <<"rmdir", "dest">>, <<"rmdir", "tmp">> >>
    ELSE <<>>

Running == exStage \in {"try", "finally"}

Step ==
    IF exStage = "try" THEN TrySteps(exEntry)[exPos]
    ELSE FinallySteps(exEntry)[exPos]

AfterTry == IF FinallySteps(exEntry) = <<>> THEN "end" ELSE "finally"

\* Control after a statement: a throw in the try block enters finally with
\* the error pending; a throw in the finally block is caught by its catch,
\* which skips the statements that are left.
Advance(ok, err) ==
    IF exStage = "try"
    THEN IF ~ok
         THEN exErr' = err /\ exStage' = AfterTry /\ exPos' = 1
         ELSE IF exPos < Len(TrySteps(exEntry))
         THEN exPos' = exPos + 1 /\ UNCHANGED <<exStage, exErr>>
         ELSE exStage' = AfterTry /\ exPos' = 1 /\ UNCHANGED exErr
    ELSE IF ok /\ exPos < Len(FinallySteps(exEntry))
         THEN exPos' = exPos + 1 /\ UNCHANGED <<exStage, exErr>>
         ELSE exStage' = "end" /\ exPos' = 1 /\ UNCHANGED exErr

\* A teardown call the virtual file system refused although it was in order.
Refused(envOk) == exEnvFail' = (exEnvFail \/ (exStage = "finally" /\ ~envOk))

EngineFrame ==
    UNCHANGED <<driverVars, globVars, nameVars, prepVars, utilVars, exEntry,
                exArchive>>

\* FS.mkdir(path): throws when the path exists.
FsMkdir ==
    /\ Running /\ Step[1] = "mkdir"
    /\ \E envOk \in BOOLEAN :
        LET ok == envOk /\ Step[2] \notin exDirs IN
        /\ exDirs' = IF ok THEN exDirs \cup {Step[2]} ELSE exDirs
        /\ Refused(envOk)
        /\ Advance(ok, <<"mkdir", 0>>)
    /\ UNCHANGED <<exMounts, exCwd, exTmp, exDest, exTarCount>>
    /\ EngineFrame

\* FS.mount(NODEFS, { root }, path): throws when path is no directory or is
\* mounted already.
FsMount ==
    /\ Running /\ Step[1] = "mount"
    /\ \E envOk \in BOOLEAN :
        LET ok == envOk /\ Step[2] \in exDirs /\ Step[2] \notin exMounts IN
        /\ exMounts' = IF ok THEN exMounts \cup {Step[2]} ELSE exMounts
        /\ Refused(envOk)
        /\ Advance(ok, <<"mount", 0>>)
    /\ UNCHANGED <<exDirs, exCwd, exTmp, exDest, exTarCount>>
    /\ EngineFrame

\* FS.chdir(path): throws when path is no directory.
FsChdir ==
    /\ Running /\ Step[1] = "chdir"
    /\ LET ok == Step[2] = "/" \/ Step[2] \in exDirs IN
        /\ exCwd' = IF ok THEN Step[2] ELSE exCwd
        /\ Advance(ok, <<"chdir", 0>>)
    /\ UNCHANGED <<exDirs, exMounts, exTmp, exDest, exTarCount, exEnvFail>>
    /\ EngineFrame

\* FS.unmount(path): throws when path is not a mount point.
FsUnmount ==
    /\ Running /\ Step[1] = "unmount"
    /\ \E envOk \in BOOLEAN :
        LET ok == envOk /\ Step[2] \in exMounts IN
        /\ exMounts' = IF ok THEN exMounts \ {Step[2]} ELSE exMounts
        /\ Refused(envOk)
        /\ Advance(ok, <<"unmount", 0>>)
    /\ UNCHANGED <<exDirs, exCwd, exTmp, exDest, exTarCount>>
    /\ EngineFrame

\* FS.rmdir(path): throws when path is missing, is a mount point or is not
\* empty.
FsRmdir ==
    /\ Running /\ Step[1] = "rmdir"
    /\ \E envOk \in BOOLEAN :
        LET ok == /\ envOk
                  /\ Step[2] \in exDirs
                  /\ Step[2] \notin exMounts
                  /\ Step[2] = "tmp" => exTmp = {} IN
        /\ exDirs' = IF ok THEN exDirs \ {Step[2]} ELSE exDirs
        /\ Refused(envOk)
        /\ Advance(ok, <<"rmdir", 0>>)
    /\ UNCHANGED <<exMounts, exCwd, exTmp, exDest, exTarCount>>
    /\ EngineFrame

\* What `7z x -y archive` writes into the current directory: the gzip layer
\* of a tar.gz yields the intermediate tar entries, any other archive its
\* files.
Yield(kind) ==
    IF kind = "gzip" THEN {<<"tar", n>> : n \in 1..exArchive.gz}
    ELSE {<<"file", e>> : e \in Entries}

\* The mode an extracted entry ends with: 7-Zip creates it and then asks
\* FS.chmod for the mode it read from the archive.
ModeOf(name) ==
    IF name[1] = "file"
    THEN FSchmod(exEntry, exArchive.files[name[2]].prior,
                 exArchive.files[name[2]].req)
    ELSE 6

Extracted(dest, names) ==
    [n \in DOMAIN dest \cup names |-> IF n \in names THEN ModeOf(n) ELSE dest[n]]

\* sevenZip.callMain(['x', '-y', archive]) and the test of its status: the
\* entries go to the current directory; a run that fails may have written
\* some of them.
CallMain ==
    /\ Running /\ Step[1] = "callMain"
    /\ \E rc \in {0, 2} :
        \E done \in (IF rc = 0 THEN {Yield(Step[2])} ELSE SUBSET Yield(Step[2])) :
            /\ IF exCwd = "tmp"
               THEN exTmp' = exTmp \cup done /\ UNCHANGED exDest
               ELSE exDest' = Extracted(exDest, done) /\ UNCHANGED exTmp
            /\ Advance(rc = 0, <<Step[2], rc>>)
    /\ UNCHANGED <<exDirs, exMounts, exCwd, exTarCount, exEnvFail>>
    /\ EngineFrame

\* The loop over FS.readdir(tmpDir): tarFileName is the first entry that is
\* neither '.' nor '..'; none makes the extraction fail.
TarFound(entries) == entries # {}

FindTar ==
    /\ Running /\ Step[1] = "findTar"
    /\ exTarCount' = Cardinality(exTmp)
    /\ Advance(TarFound(exTmp), <<"no tar file", 0>>)
    /\ UNCHANGED <<exDirs, exMounts, exCwd, exTmp, exDest, exEnvFail>>
    /\ EngineFrame

\* A mutant of Unlinked: the teardown leaves the entries of tmpDir alone.
Unlinked_keep(entries, ok) == entries

\* for (name of FS.readdir(tmpDir)) FS.unlink(join(tmpDir, name)): what is
\* left of the entries.
Unlinked(entries, ok) == IF ok THEN {} ELSE entries

\* The inner try of the teardown: unlink every entry of tmpDir; its catch
\* swallows an error and the teardown goes on.
ClearTmp ==
    /\ Running /\ Step[1] = "clearTmp"
    /\ \E envOk \in BOOLEAN :
        /\ exTmp' = Unlinked(exTmp, envOk /\ "tmp" \in exDirs)
        /\ Refused(envOk)
    /\ Advance(TRUE, <<>>)
    /\ UNCHANGED <<exDirs, exMounts, exCwd, exDest, exTarCount>>
    /\ EngineFrame

ArchiveFiles == [Entries -> [prior : {4, 6}, req : {0, 4}]]

ExtractInit ==
    /\ DriverIdle
    /\ GlobIdle
    /\ NameIdle
    /\ PrepIdle
    /\ exEntry \in {"main", "extractWith7z", "extractTarGzInVfs"}
    /\ exArchive \in [gz : 0..MaxGz, files : ArchiveFiles]
    /\ exEntry # "extractTarGzInVfs" => exArchive.gz = 0
    /\ exStage = "try"
    /\ exPos = 1
    /\ exDirs = {}
    /\ exMounts = {}
    /\ exCwd = "/"
    /\ exTmp = {}
    /\ exDest = <<>>
    /\ exErr = <<>>
    /\ exTarCount = -1
    /\ exEnvFail = FALSE
    /\ UtilIdle

ExtractNext ==
    \/ FsMkdir
    \/ FsMount
    \/ FsChdir
    \/ CallMain
    \/ FindTar
    \/ ClearTmp
    \/ FsUnmount
    \/ FsRmdir

ExtractSpec == ExtractInit /\ [][ExtractNext]_vars

\* ------------------------------------------------ the output file name
\* File names are strings over a small alphabet with a dot, a lower-case and
\* an upper-case letter.

MaxName == 3        \* longest base name

Chars == {"t", "T", "."}
Strings(n) == UNION {[1..k -> Chars] : k \in 0..n}

\* Base names a directory entry can have: not empty, not '.' and not '..'.
Names == Strings(MaxName) \ {<<>>, <<".">>, <<".", ".">>}

Dots(name) == {x \in DOMAIN name : name[x] = "."}
LastDot(name) == CHOOSE d \in Dots(name) : \A x \in Dots(name) : x <= d

\* extname(path) of @std/path for a base name: the part from the last dot on;
\* empty when there is no dot, when the last dot is the first character, and
\* for '..'.
extname(name) ==
    IF Dots(name) = {} THEN <<>>
    ELSE IF LastDot(name) = 1 THEN <<>>
    ELSE IF name = <<".", ".">> THEN <<>>
    ELSE SubSeq(name, LastDot(name), Len(name))

\* String.prototype.slice(0, end): a negative end counts from the end of the
\* string, and -0 is 0.
slice0(str, end) ==
    IF end < 0
    THEN SubSeq(str, 1, IF Len(str) + end > 0 THEN Len(str) + end ELSE 0)
    ELSE SubSeq(str, 1, IF end < Len(str) THEN end ELSE Len(str))

\* videoBasename.slice(0, -extname(videoBasename).length) + item.outputSuffix
OutputFilename(video, suffix) ==
    slice0(video, 0 - Len(extname(video))) \o suffix

NameInit ==
    /\ DriverIdle
    /\ GlobIdle
    /\ EngineIdle
    /\ PrepIdle
    /\ videoBasename \in Names
    /\ outputSuffix \in {<<".", "t">>, <<"T">>}
    /\ outputFilename = <<>>
    /\ UtilIdle

DeriveOutput ==
    /\ outputFilename = <<>>
    /\ outputFilename' = OutputFilename(videoBasename, outputSuffix)
    /\ UNCHANGED <<driverVars, globVars, engineVars, prepVars, utilVars,
                   videoBasename,
                   outputSuffix>>

NameNext == DeriveOutput

NameSpec == NameInit /\ [][NameNext]_vars

\* ------------------------------- getOrPrepare with directory contents
\* getOrPrepare calls made one after the other on one TempDirCache (no call
\* is in flight when the next is made), with the files of the source and of
\* the Prepared Directories.  Every source path holds the same files.

MaxFiles == 2       \* files under the source path
MaxPrepares == 2    \* getOrPrepare calls

Files == [dir : {"", "sub"}, name : Names]
FileSets ==
    UNION {{{pick[x] : x \in DOMAIN pick} : pick \in [1..k -> Files]} :
              k \in 0..MaxFiles}

\* allowedExtensions; {} stands for an absent or empty list.
AllowLists == {{}, {<<".", "t">>}, {<<".", "T">>}, {<<".", "t", "t">>}}

\* String.prototype.toLowerCase()
toLowerCase(str) == [x \in DOMAIN str |-> IF str[x] = "T" THEN "t" ELSE str[x]]

\* filteredCopy(src, dest, allowedExtensions): the files dest holds after it,
\* each under the path it has relative to src.
filteredCopy(files, allowedExtensions) ==
    LET lowerExts == {toLowerCase(e) : e \in allowedExtensions} IN
    {f \in files : toLowerCase(extname(f.name)) \in lowerExts}

\* What a request that misses the cache puts into its sub-directory.
PreparedFrom(files, src, allowed) ==
    IF IsArchive(src) THEN files
    ELSE IF allowed # {} THEN filteredCopy(files, allowed)
    ELSE files

Prepared(src, allowed) == PreparedFrom(srcFiles, src, allowed)

\* One getOrPrepare call from entry to return or throw.
Prepare(src, allowed) ==
    LET key == CacheKey(src)
        root == IF rootTempDir = 0 THEN nextId ELSE rootTempDir
        sub == <<root, nextId + 1>> IN
    /\ prepCount < MaxPrepares
    /\ prepCount' = prepCount + 1
    /\ \E fail \in {"none", "stat", "root", "sub", "copy"} :
        IF fail = "stat"
        THEN /\ lastPrep' = [src |-> src, allowed |-> allowed, dir |-> NoDir,
                             how |-> "failed"]
             /\ UNCHANGED <<cacheVars, fsVars, returned, dirFiles>>
        ELSE IF key \in DOMAIN cache
        THEN /\ lastPrep' = [src |-> src, allowed |-> allowed,
                             dir |-> cache[key], how |-> "hit"]
             /\ returned' = returned \cup {<<key, cache[key], "hit">>}
             /\ UNCHANGED <<cacheVars, fsVars, dirFiles>>
        ELSE IF fail = "root" /\ rootTempDir = 0
        THEN /\ lastPrep' = [src |-> src, allowed |-> allowed, dir |-> NoDir,
                             how |-> "failed"]
             /\ UNCHANGED <<cacheVars, fsVars, returned, dirFiles>>
        ELSE /\ rootTempDir' = root
             /\ fsRoots' = fsRoots \cup {root}
             /\ nextId' = nextId + 2
             /\ UNCHANGED fsTemp
             /\ IF fail = "sub"
                THEN /\ lastPrep' = [src |-> src, allowed |-> allowed,
                                     dir |-> NoDir, how |-> "failed"]
                     /\ UNCHANGED <<cache, subDirCount, fsSubDirs, returned,
                                    dirFiles>>
                ELSE /\ fsSubDirs' = fsSubDirs \cup {sub}
                     /\ subDirCount' = subDirCount + 1
                     /\ IF fail = "copy"
                        THEN /\ \E part \in SUBSET Prepared(src, allowed) :
                                   dirFiles' = (sub :> part) @@ dirFiles
                             /\ lastPrep' = [src |-> src, allowed |-> allowed,
                                             dir |-> NoDir, how |-> "failed"]
                             /\ UNCHANGED <<cache, returned>>
                        ELSE /\ dirFiles' = (sub :> Prepared(src, allowed)) @@ dirFiles
                             /\ cache' = CacheSet(cache, key, sub)
                             /\ returned' = returned \cup {<<key, sub, "miss">>}
                             /\ lastPrep' = [src |-> src, allowed |-> allowed,
                                             dir |-> sub, how |-> "miss"]
    /\ UNCHANGED <<procVars, batchVars, jobVars, created, overlapped, rmFailed, cleaned,
                   toolCalls, tempFiles, commits, attempted, globVars,
                   engineVars, nameVars, utilVars, srcFiles>>

PrepInit ==
    /\ DriverIdle
    /\ GlobIdle
    /\ EngineIdle
    /\ NameIdle
    /\ srcFiles \in FileSets
    /\ dirFiles = <<>>
    /\ lastPrep = NoPrep
    /\ prepCount = 0
    /\ UtilIdle

PrepNext == \E src \in Sources, allowed \in AllowLists : Prepare(src, allowed)

PrepSpec == PrepInit /\ [][PrepNext]_vars

\* ------------------------------------------------------------ download()
\* One call of download(url, destPath, options).  Time is counted in ticks
\* while the timer is armed; the server may answer at any tick or never.

MaxTimeout == 2  \* largest options.timeout, in ticks
MaxChunks == 2   \* largest body, in chunks

\* The variables download() does not touch.
DownloadFrame ==
    UNCHANGED <<driverVars, globVars, engineVars, nameVars, prepVars,
                failureVars, dmgVars, contentVars>>

\* timeout ? setTimeout(() => controller.abort(), timeout) : undefined
TimerFor(timeout) == IF timeout # 0 THEN "armed" ELSE "none"

\* finally { if (timeoutId) clearTimeout(timeoutId) }
Cleared(timer) == IF timer = "none" THEN "none" ELSE "cleared"

\* catch: an AbortError becomes the timeout error, anything else is rethrown.
Rethrown(error) == IF error = "AbortError" THEN "timeout" ELSE error

\* The call leaves through catch and finally with the given error.
DlThrow(error) ==
    /\ dlResult' = Rethrown(error)
    /\ dlTimer' = Cleared(dlTimer)
    /\ dlPc' = "done"

\* download(downloadUrl, tempFile) in downloadAssfonts passes no options;
\* any other caller chooses the timeout, 0 standing for none given.
DlCall(caller, timeout, chunks) ==
    /\ dlPc = "idle"
    /\ caller = "installer" => timeout = 0
    /\ dlCaller' = caller
    /\ dlTimeout' = timeout
    /\ dlChunks' = chunks
    /\ dlPc' = "ensureDir"
    /\ UNCHANGED <<dlTimer, dlElapsed, dlAborted, dlStatus, dlResult>>
    /\ DownloadFrame

\* await ensureDir(dirname(destPath)), then the controller and the timer
DlEnsureDir(ok) ==
    /\ dlPc = "ensureDir"
    /\ IF ok
       THEN /\ dlTimer' = TimerFor(dlTimeout)
            /\ dlPc' = "fetch"
            /\ UNCHANGED dlResult
       ELSE /\ dlResult' = "other"
            /\ dlPc' = "done"
            /\ UNCHANGED dlTimer
    /\ UNCHANGED <<dlCaller, dlTimeout, dlElapsed, dlAborted, dlStatus, dlChunks>>
    /\ DownloadFrame

\* A tick of the clock while the timer is armed; at options.timeout the
\* callback runs controller.abort().
DlTick ==
    /\ dlPc \in {"fetch", "create", "pipe"}
    /\ dlTimer = "armed"
    /\ dlElapsed' = dlElapsed + 1
    /\ IF dlElapsed + 1 = dlTimeout
       THEN dlTimer' = "fired" /\ dlAborted' = TRUE
       ELSE UNCHANGED <<dlTimer, dlAborted>>
    /\ UNCHANGED <<dlPc, dlCaller, dlTimeout, dlStatus, dlChunks, dlResult>>
    /\ DownloadFrame

\* await fetch(url, {headers, signal}): rejected with an AbortError once the
\* signal is aborted, otherwise a response (status 200 or 404) or a network
\* error (status 0).
DlFetch(status) ==
    /\ dlPc = "fetch"
    /\ IF dlAborted
       THEN DlThrow("AbortError") /\ UNCHANGED dlStatus
       ELSE IF status = 200
       THEN /\ dlStatus' = status
            /\ dlPc' = "create"
            /\ UNCHANGED <<dlTimer, dlResult>>
       ELSE IF status = 404
       THEN DlThrow("http") /\ dlStatus' = status
       ELSE DlThrow("other") /\ UNCHANGED dlStatus
    /\ UNCHANGED <<dlCaller, dlTimeout, dlElapsed, dlAborted, dlChunks>>
    /\ DownloadFrame

\* await Deno.create(destPath)
DlCreate(ok) ==
    /\ dlPc = "create"
    /\ IF ok
       THEN dlPc' = "pipe" /\ UNCHANGED <<dlTimer, dlResult>>
       ELSE DlThrow("other")
    /\ UNCHANGED <<dlCaller, dlTimeout, dlElapsed, dlAborted, dlStatus, dlChunks>>
    /\ DownloadFrame

\* await response.body?.pipeTo(file.writable): a chunk arrives, the body
\* ends, the write fails, or the aborted signal errors the body.
DlPipe(ok) ==
    /\ dlPc = "pipe"
    /\ IF dlAborted
       THEN DlThrow("AbortError") /\ UNCHANGED dlChunks
       ELSE IF ~ok
       THEN DlThrow("other") /\ UNCHANGED dlChunks
       ELSE IF dlChunks > 0
       THEN /\ dlChunks' = dlChunks - 1
            /\ UNCHANGED <<dlPc, dlTimer, dlResult>>
       ELSE /\ dlResult' = "ok"
            /\ dlTimer' = Cleared(dlTimer)
            /\ dlPc' = "done"
            /\ UNCHANGED dlChunks
    /\ UNCHANGED <<dlCaller, dlTimeout, dlElapsed, dlAborted, dlStatus>>
    /\ DownloadFrame

DownloadInit ==
    /\ DriverIdle
    /\ GlobIdle
    /\ EngineIdle
    /\ NameIdle
    /\ PrepIdle
    /\ UtilIdle

DownloadNext ==
    \/ \E caller \in {"installer", "client"}, timeout \in 0..MaxTimeout,
          chunks \in 0..MaxChunks : DlCall(caller, timeout, chunks)
    \/ \E ok \in BOOLEAN : DlEnsureDir(ok)
    \/ DlTick
    \/ \E status \in {0, 200, 404} : DlFetch(status)
    \/ \E ok \in BOOLEAN : DlCreate(ok)
    \/ \E ok \in BOOLEAN : DlPipe(ok)

DownloadSpec == DownloadInit /\ [][DownloadNext]_vars

\* ------------------------------------------------------- withMountedDmg
\* One call of withMountedDmg(dmgPath, callback): withTempDir makes the
\* mount point, hdiutil attaches the image, the callback runs, hdiutil
\* detaches, withTempDir removes the mount point.

MaxCallbackSteps == 2   \* awaits inside the callback
MaxValue == 3           \* distinct values a callback returns

Value(v) == [kind |-> "value", value |-> v, cause |-> ""]
Error(name, cause) == [kind |-> name, value |-> 0, cause |-> cause]

\* What a callback does: after some awaits it returns a value or throws.
Callbacks ==
    [steps : 0..MaxCallbackSteps,
     outcome : {Value(v) : v \in 1..MaxValue} \cup {Error("callback error", "")}]

\* The variables withMountedDmg() does not touch.
DmgFrame ==
    UNCHANGED <<driverVars, globVars, engineVars, nameVars, prepVars,
                failureVars, downloadVars, contentVars>>

DmgCall(callback) ==
    /\ dmPc = "idle"
    /\ dmCallback' = callback
    /\ dmPc' = "makeTempDir"
    /\ UNCHANGED <<dmEvents, dmAttached, dmMountPoint, dmInner, dmResult,
                   dmWarned, dmRmFailed>>
    /\ DmgFrame

\* withTempDir: const tempDir = await Deno.makeTempDir({ prefix }), outside
\* its try.
DmgMakeTempDir(ok) ==
    /\ dmPc = "makeTempDir"
    /\ dmEvents' = Append(dmEvents, "create")
    /\ IF ok
       THEN /\ dmMountPoint' = TRUE
            /\ dmPc' = "attach"
            /\ UNCHANGED dmResult
       ELSE /\ dmResult' = Error("makeTempDir error", "")
            /\ dmPc' = "done"
            /\ UNCHANGED dmMountPoint
    /\ UNCHANGED <<dmCallback, dmAttached, dmInner, dmWarned, dmRmFailed>>
    /\ DmgFrame

\* A mutant of AfterAttach: the callback runs although the attach failed.
AfterAttach_always(ok) == "callback"

\* try { await $`hdiutil attach ...` } catch (error) { throw ... }: the
\* callback is reached only when the attach did not throw.
AfterAttach(ok) == IF ok THEN "callback" ELSE "remove"

DmgAttach(ok) ==
    /\ dmPc = "attach"
    /\ dmEvents' = Append(dmEvents, "attach")
    /\ dmAttached' = ok
    /\ dmInner' = IF ok THEN dmInner ELSE Error("mount error", "hdiutil")
    /\ dmPc' = AfterAttach(ok)
    /\ UNCHANGED <<dmCallback, dmMountPoint, dmResult, dmWarned, dmRmFailed>>
    /\ DmgFrame

\* return await callback(mountPoint): the callback is entered, takes its
\* awaits and completes.
DmgCallback ==
    /\ dmPc = "callback"
    /\ IF "callback" \notin {dmEvents[x] : x \in DOMAIN dmEvents}
       THEN /\ dmEvents' = Append(dmEvents, "callback")
            /\ UNCHANGED <<dmCallback, dmInner, dmPc>>
       ELSE IF dmCallback.steps > 0
       THEN /\ dmCallback' = [dmCallback EXCEPT !.steps = @ - 1]
            /\ UNCHANGED <<dmEvents, dmInner, dmPc>>
       ELSE /\ dmInner' = dmCallback.outcome
            /\ dmPc' = "detach"
            /\ UNCHANGED <<dmEvents, dmCallback>>
    /\ UNCHANGED <<dmAttached, dmMountPoint, dmResult, dmWarned, dmRmFailed>>
    /\ DmgFrame

\* finally { try { await $`hdiutil detach ...` } catch (e) { consola.warn } }
DmgDetach(ok) ==
    /\ dmPc = "detach"
    /\ dmEvents' = Append(dmEvents, "detach")
    /\ dmAttached' = IF ok THEN FALSE ELSE dmAttached
    /\ dmWarned' = ~ok
    /\ dmPc' = "remove"
    /\ UNCHANGED <<dmCallback, dmMountPoint, dmInner, dmResult, dmRmFailed>>
    /\ DmgFrame

\* The finally of withTempDir: Deno.remove(tempDir, { recursive: true }),
\* errors swallowed; the call then completes as its callback did.
DmgRemove(ok) ==
    /\ dmPc = "remove"
    /\ dmEvents' = Append(dmEvents, "remove")
    /\ dmMountPoint' = IF ok THEN FALSE ELSE dmMountPoint
    /\ dmRmFailed' = ~ok
    /\ dmResult' = Swallowed(dmInner, Error("remove error", ""), ok)
    /\ dmPc' = "done"
    /\ UNCHANGED <<dmCallback, dmAttached, dmInner, dmWarned>>
    /\ DmgFrame

DmgInit ==
    /\ DriverIdle
    /\ GlobIdle
    /\ EngineIdle
    /\ NameIdle
    /\ PrepIdle
    /\ UtilIdle

DmgNext ==
    \/ \E callback \in Callbacks : DmgCall(callback)
    \/ \E ok \in BOOLEAN : DmgMakeTempDir(ok)
    \/ \E ok \in BOOLEAN : DmgAttach(ok)
    \/ DmgCallback
    \/ \E ok \in BOOLEAN : DmgDetach(ok)
    \/ \E ok \in BOOLEAN : DmgRemove(ok)

DmgSpec == DmgInit /\ [][DmgNext]_vars

\* ------------------------------------------- jobs with file contents
\* The jobs of one process() call, one after the other on one TempDirCache,
\* with the files they read and write.  A file carries the number of times
\* a content transform has been applied to its text (0: the source text).
\* Place 0 is a directory that is no source; every source path holds a font
\* and a subtitle file.  A job names one font source.

MaxContentJobs == 2     \* jobs of the batch
MaxVideos == 2          \* files an output directory holds for the videoGlob

\* FONT_EXTENSIONS and SUBTITLE_EXTENSIONS over the alphabet of Chars.
FONT_EXTENSIONS == {<<".", "t">>}
SUBTITLE_EXTENSIONS == {<<".", "t", "t">>}

fontFile == [dir |-> "", name |-> <<"t", ".", "t">>, text |-> 0]
subFile == [dir |-> "", name |-> <<"t", ".", "t", "t">>, text |-> 0]

\* item.outputSuffix: one that gives the output the name of the subtitle
\* file of the source, and one that does not.
OutputSuffixes == {<<".", "t", "t">>, <<".", "T">>}

\* The output name of a job whose video is t.T
JobOutputName(job) == OutputFilename(<<"t", ".", "T">>, job.outputSuffix)

\* The file at join(item.outputDir, outputFilename).
outputFile(job, text) == [dir |-> "", name |-> JobOutputName(job), text |-> text]

Places == Sources \cup {0}
OutDirs == {d \in Sources : ~IsArchive(d)} \cup {0}
ContentJobs ==
    [font : Sources, sub : Sources, transform : BOOLEAN, out : OutDirs,
     outputSuffix : OutputSuffixes]

InitialTree == [p \in Places |-> IF p = 0 THEN {} ELSE {fontFile, subFile}]

\* getFilesByGlob(actualSubtitleDir, item.subtitleGlob) for the glob that
\* names the subtitle file of the source.
SubtitleMatches(files) == {f \in files : f.name = subFile.name}

\* getUniqueFileByGlob by the number of matches.
UniqueError(count) ==
    IF count = 0 THEN "glob:none"
    ELSE IF count > 1 THEN "glob:multiple"
    ELSE ""

\* A mutant of CommitPlace: the artifact is copied into the subtitle source.
CommitPlace_source(job) == job.sub

\* copy(processedFile, join(item.outputDir, outputFilename), { overwrite: true })
CommitPlace(job) == job.out

\* Deno.writeTextFile(subtitleFile, await item.subtitleTransform(content))
TransformedText(text) == text + 1

\* The variables the content jobs do not touch.
ContentFrame ==
    UNCHANGED <<driverVars, globVars, engineVars, nameVars, prepVars,
                failureVars, downloadVars, dmgVars>>

\* The catch of processOne (or its return) and the loop of process(): a
\* failed job ends the batch.
CtEnd(stage, error, committed) ==
    /\ ctLog' = Append(ctLog, [job |-> ctJob, stage |-> stage, error |-> error,
                               wrote |-> ctWrote, committed |-> committed])
    /\ ctPc' = IF error = "" THEN "idle" ELSE "done"

CtStart(job) ==
    /\ ctPc = "idle"
    /\ ctCount < MaxContentJobs
    /\ ctCount' = ctCount + 1
    /\ ctJob' = job
    /\ ctEvents' = <<>>
    /\ ctWrote' = FALSE
    /\ ctSubDir' = <<>>
    /\ ctPc' = "fonts"
    /\ UNCHANGED <<ctTree, ctVideos, ctPrepared, ctInputs, ctLog>>
    /\ ContentFrame

\* cache.getOrPrepare(src, description, { allowedExtensions }): a hit leaves
\* the Prepared Directory as it is, a miss fills a new one.
CtGetOrPrepare(src, allowed) ==
    ctPrepared' =
        IF CacheKey(src) \in DOMAIN ctPrepared THEN ctPrepared
        ELSE (CacheKey(src) :> PreparedFrom(ctTree[src], src, allowed)) @@ ctPrepared

\* prepareDirectory for the font source
CtFonts(ok) ==
    /\ ctPc = "fonts"
    /\ IF ok
       THEN /\ CtGetOrPrepare(ctJob.font, FONT_EXTENSIONS)
            /\ ctPc' = "sub"
            /\ UNCHANGED ctLog
       ELSE /\ CtEnd("fonts", "prepare failed", FALSE)
            /\ UNCHANGED ctPrepared
    /\ UNCHANGED <<ctJob, ctCount, ctTree, ctVideos, ctSubDir, ctEvents, ctWrote,
                   ctInputs>>
    /\ ContentFrame

\* prepareDirectory for the subtitle source
CtSub(ok) ==
    /\ ctPc = "sub"
    /\ IF ok
       THEN /\ CtGetOrPrepare(ctJob.sub, SUBTITLE_EXTENSIONS)
            /\ ctSubDir' = CacheKey(ctJob.sub)
            /\ ctPc' = "globSub"
            /\ UNCHANGED ctLog
       ELSE /\ CtEnd("sub", "prepare failed", FALSE)
            /\ UNCHANGED <<ctPrepared, ctSubDir>>
    /\ UNCHANGED <<ctJob, ctCount, ctTree, ctVideos, ctEvents, ctWrote, ctInputs>>
    /\ ContentFrame

\* getUniqueFileByGlob(actualSubtitleDir, item.subtitleGlob)
CtResolveSubtitle ==
    LET error == UniqueError(Cardinality(SubtitleMatches(ctPrepared[ctSubDir]))) IN
    /\ ctPc = "globSub"
    /\ IF error = ""
       THEN /\ ctEvents' = Append(ctEvents, "subtitle")
            /\ ctPc' = "transform"
            /\ UNCHANGED ctLog
       ELSE /\ CtEnd("globSub", error, FALSE)
            /\ UNCHANGED ctEvents
    /\ UNCHANGED <<ctJob, ctCount, ctTree, ctVideos, ctPrepared, ctSubDir, ctWrote,
                   ctInputs>>
    /\ ContentFrame

\* if (item.subtitleTransform) { read; transform; write back in place }
CtTransform(ok) ==
    LET file == CHOOSE f \in SubtitleMatches(ctPrepared[ctSubDir]) : TRUE IN
    /\ ctPc = "transform"
    /\ IF ~ctJob.transform
       THEN /\ ctPc' = "globVideo"
            /\ UNCHANGED <<ctPrepared, ctEvents, ctWrote, ctInputs, ctLog>>
       ELSE /\ ctInputs' = ctInputs \cup {file.text}
            /\ IF ok
               THEN /\ ctPrepared' =
                        [ctPrepared EXCEPT ![ctSubDir] = (@ \ {file}) \cup
                            {[file EXCEPT !.text = TransformedText(file.text)]}]
                    /\ ctWrote' = (TransformedText(file.text) # file.text)
                    /\ ctEvents' = Append(ctEvents, "transform")
                    /\ ctPc' = "globVideo"
                    /\ UNCHANGED ctLog
               ELSE /\ ctWrote' = ctWrote
                    /\ CtEnd("transform", "transform failed", FALSE)
                    /\ UNCHANGED <<ctPrepared, ctEvents>>
    /\ UNCHANGED <<ctJob, ctCount, ctTree, ctVideos, ctSubDir>>
    /\ ContentFrame

\* getUniqueFileByGlob(item.outputDir, item.videoGlob)
CtResolveVideo ==
    LET error == UniqueError(ctVideos[ctJob.out]) IN
    /\ ctPc = "globVideo"
    /\ ctWrote' = ctWrote
    /\ IF error = ""
       THEN /\ ctEvents' = Append(ctEvents, "video")
            /\ ctPc' = "tool"
            /\ UNCHANGED ctLog
       ELSE /\ CtEnd("globVideo", error, FALSE)
            /\ UNCHANGED ctEvents
    /\ UNCHANGED <<ctJob, ctCount, ctTree, ctVideos, ctPrepared, ctSubDir, ctInputs>>
    /\ ContentFrame

\* withTempDir: the tool runs on the subtitle file, and its one artifact is
\* copied onto the output path, replacing a file of that name.
CtTool(toolOk, copyOk) ==
    LET file == CHOOSE f \in SubtitleMatches(ctPrepared[ctSubDir]) : TRUE
        out == CommitPlace(ctJob) IN
    /\ ctPc = "tool"
    /\ ctWrote' = ctWrote
    /\ IF ~toolOk
       THEN CtEnd("tool", "tool failed", FALSE) /\ UNCHANGED ctTree
       ELSE IF ~copyOk
       THEN CtEnd("copy", "copy failed", FALSE) /\ UNCHANGED ctTree
       ELSE /\ ctTree' =
                [ctTree EXCEPT ![out] =
                    {f \in @ : f.name # JobOutputName(ctJob)} \cup
                        {outputFile(ctJob, file.text)}]
            /\ CtEnd("", "", TRUE)
    /\ UNCHANGED <<ctJob, ctCount, ctVideos, ctPrepared, ctSubDir, ctEvents,
                   ctInputs>>
    /\ ContentFrame

ContentInit ==
    /\ DriverIdle
    /\ GlobIdle
    /\ EngineIdle
    /\ NameIdle
    /\ PrepIdle
    /\ DownloadIdle
    /\ DmgIdle
    /\ NoFailure
    /\ ctPc = "idle"
    /\ ctJob = NoJob
    /\ ctCount = 0
    /\ ctTree = InitialTree
    /\ ctVideos \in [OutDirs -> 0..MaxVideos]
    /\ ctPrepared = <<>>
    /\ ctSubDir = <<>>
    /\ ctEvents = <<>>
    /\ ctWrote = FALSE
    /\ ctInputs = {}
    /\ ctLog = <<>>

ContentNext ==
    \/ \E job \in ContentJobs : CtStart(job)
    \/ \E ok \in BOOLEAN : CtFonts(ok)
    \/ \E ok \in BOOLEAN : CtSub(ok)
    \/ CtResolveSubtitle
    \/ \E ok \in BOOLEAN : CtTransform(ok)
    \/ CtResolveVideo
    \/ \E toolOk, copyOk \in BOOLEAN : CtTool(toolOk, copyOk)

ContentSpec == ContentInit /\ [][ContentNext]_vars

\* ================================================================== claims

Keys == {CacheKey(src) : src \in Sources}
DirsReturned(k) == {t[2] : t \in {u \in returned : u[1] = k}}
Extractions(k) == {t \in returned : t[1] = k /\ t[3] = "miss"}
Range(f) == {f[x] : x \in DOMAIN f}
SummaryBlocks == {log[x] : x \in {y \in DOMAIN log : log[y].t = "summary"}}
AggregateThrown ==
    /\ pc = "done"
    /\ outcome.kind = "thrown"
    /\ outcome.message = AggregateMessage(failCount)

\* C1 -- Cache idempotence.  Within one cache lifetime (no cleanup() since),
\* for a key whose requests were issued one after the other (none while
\* another request for the key was in flight), every getOrPrepare call that
\* returned has returned the same directory, and the extraction/copy for the
\* key has been performed at most once.
C1_CacheIdempotence ==
    \A k \in Keys \ overlapped :
        /\ Cardinality(DirsReturned(k)) <= 1
        /\ Cardinality(Extractions(k)) <= 1

\* A key was prepared by one call and served from the cache by a later one.
C1_Witness ==
    \E k \in Keys \ overlapped : \E d \in DirsReturned(k) :
        /\ <<k, d, "miss">> \in returned
        /\ <<k, d, "hit">> \in returned

\* C2 -- Exactly once per key under overlapping requests: of two getOrPrepare
\* calls for the same key that are in flight together, at most one allocates
\* a sub-directory (and extracts into it); the other observes that directory.
C2_OncePerKeyOverlapping ==
    \A a, b \in DOMAIN reqs :
        ( /\ a # b
          /\ CacheKey(reqs[a].src) = CacheKey(reqs[b].src)
          /\ reqs[a].dir # NoDir
          /\ reqs[b].dir # NoDir )
        => reqs[a].dir = reqs[b].dir

\* C3 -- Cleanup guarantee: once process() has returned or thrown, no Cache
\* Root created during the call exists on disk and no Prepared Directory
\* remains.  Stated here for the roots whose removal the file system did not
\* refuse, so that a violation is the driver's doing.
C3_CleanupGuarantee ==
    pc = "done" =>
        /\ (created \ rmFailed) \cap fsRoots = {}
        /\ \A d \in fsSubDirs : d[1] \in created => d[1] \in rmFailed

\* C4 -- Single Cache Root: until cleanup(), at most one Cache Root has been
\* created and every Prepared Directory lies under it.
C4_SingleCacheRoot ==
    pc # "done" =>
        /\ Cardinality(created) <= 1
        /\ \A d \in fsSubDirs : d[1] = rootTempDir

\* C5 -- Fail-fast.  When job k is the first to fail: no later job is handed
\* to processOne, runs the tool or has its output copied; the results are k-1
\* successes followed by the failure; the summary block, which is written
\* whenever a log file is set and the append succeeds, reports k-1 / 1 / N-k.
C5_FailFast ==
    LET k == Len(results) IN
    /\ failCount <= 1
    /\ failCount = 1 =>
        /\ k >= 1
        /\ ~results[k].success
        /\ \A j \in 1..(k - 1) : results[j].success
        /\ successCount = k - 1
        /\ attempted \subseteq 1..k
        /\ \A t \in toolCalls : t.job <= k
        /\ \A c \in commits : c.job <= k
        /\ pc \in {"summary", "cleanup", "done"}
        /\ \A b \in SummaryBlocks : b.x = k - 1 /\ b.y = 1 /\ b.z = items - k
        /\ (pc \in {"cleanup", "done"} /\ logFile # ""
              /\ pending # Thrown(<<"log write failed">>))
           => SummaryBlocks # {}

\* Three jobs, the second failed: two results, the third never attempted,
\* the summary reports 1 / 1 / 1.
C5_Witness ==
    /\ pc = "done"
    /\ items = 3
    /\ Len(results) = 2
    /\ results[1].success
    /\ ~results[2].success
    /\ attempted = {1, 2}
    /\ \E b \in SummaryBlocks : b.x = 1 /\ b.y = 1 /\ b.z = 1

\* C6 -- When a job failed, process() raises the aggregate error after the
\* summary block is written, and the results collected so far reach the
\* caller.
C6_PartialResultsDelivered ==
    AggregateThrown =>
        /\ logFile # "" => SummaryBlocks # {}
        /\ outcome.results = results

\* C7 -- The aggregate error carries the message of the failed job.
C7_AggregateNamesFailure ==
    AggregateThrown =>
        \E x \in DOMAIN outcome.message :
            outcome.message[x] = results[Len(results)].error

\* C8 -- Exactly-one-match contract: no match fails, one match is returned,
\* several matches fail with an error that lists the base name of every
\* match; one of several is never picked.
GlobMatchSet == {x \in DOMAIN globListing : GlobMatches(globListing[x], globPattern)}

C8_ExactlyOneMatch ==
    globResult # NoGlobResult =>
        /\ Cardinality(GlobMatchSet) = 0 => ~globResult.ok
        /\ Cardinality(GlobMatchSet) = 1 =>
              /\ globResult.ok
              /\ \E x \in GlobMatchSet : globResult.file = globListing[x]
        /\ Cardinality(GlobMatchSet) >= 2 =>
              /\ ~globResult.ok
              /\ Len(globResult.names) = Cardinality(GlobMatchSet)
              /\ \A x \in GlobMatchSet :
                    Basename(globListing[x]) \in Range(globResult.names)

\* Three matches, in two directories, were refused and listed.
C8_Witness ==
    /\ Cardinality(GlobMatchSet) = 3
    /\ \E x, y \in GlobMatchSet : globListing[x].dir # globListing[y].dir
    /\ ~globResult.ok
    /\ Len(globResult.names) = 3

\* The jobs whose withTempDir callback is over.
Finished(job) == job <= Len(results)
CopyInvoked(job) == \E c \in commits : c.job = job
Written(job) == \E c \in commits : c.job = job /\ c.ok

\* C9 as stated -- the final output path is written if and only if the tool
\* reported success and the temporary directory then held exactly one
\* artifact; otherwise the job failed and the path was left alone.
C9_CommitGate_AsStated ==
    \A t \in toolCalls : Finished(t.job) =>
        /\ Written(t.job) <=> (t.ok /\ t.count = 1)
        /\ ~(t.ok /\ t.count = 1) =>
              ~results[t.job].success /\ ~CopyInvoked(t.job)

\* C9 -- Output commit is gated on exactly one artifact.  The copy onto the
\* final output path is invoked if and only if the tool reported success, the
\* job's log block (when a log file is set) was appended, and the temporary
\* directory held exactly one artifact; the path is written if and only if
\* that copy succeeds, and in every other case the job is recorded as failed.
C9_CommitGate ==
    \A t \in toolCalls : Finished(t.job) =>
        /\ CopyInvoked(t.job) <=> (t.ok /\ t.logged /\ t.count = 1)
        /\ Written(t.job) <=> results[t.job].success
        /\ ~(t.ok /\ t.count = 1) =>
              ~results[t.job].success /\ ~CopyInvoked(t.job)

\* One job was committed and a later one, whose tool run succeeded but left
\* two artifacts, failed without a copy.
C9_Witness ==
    \E t, u \in toolCalls :
        /\ Finished(t.job) /\ Finished(u.job)
        /\ Written(t.job) /\ results[t.job].success
        /\ u.ok /\ u.count = 2 /\ ~CopyInvoked(u.job) /\ ~results[u.job].success

\* The tool is given a fresh temporary directory: never the final output
\* directory, never one given to another run of the tool.
ToolDirsFresh ==
    /\ \A t \in toolCalls : t.out[1] = "tmp"
    /\ \A t, u \in toolCalls : t.job # u.job => t.out # u.out
    /\ pc \in {"collect", "leaveTemp"} =>
          \E t \in toolCalls : t.job = i + 1 /\ t.out = <<"tmp", tempOutputDir>>

\* C10 as stated -- job-scoped temporary output: fresh directory for every
\* tool run, and no temporary directory exists once its job has finished.
C10_TempOutput_AsStated ==
    /\ ToolDirsFresh
    /\ fsTemp \subseteq {tempOutputDir}

\* C10 -- Job-scoped temporary output.  Every tool run gets a fresh temporary
\* directory; its removal is attempted on every path out of the job, and
\* once the job has finished the directory is gone unless Deno.remove threw
\* (an error withTempDir swallows).
C10_TempOutput ==
    /\ ToolDirsFresh
    /\ fsTemp \subseteq ({tempOutputDir} \cup rmFailed)

\* Two jobs ran the tool, the first succeeded, the second failed in the tool,
\* and neither temporary directory is left.
C10_Witness ==
    /\ fsTemp = {}
    /\ \E t, u \in toolCalls :
        /\ t.job # u.job
        /\ Finished(t.job) /\ Finished(u.job)
        /\ results[t.job].success
        /\ ~u.ok

\* The blocks of the log that belong to a job.
JobBlocks(job) == {x \in DOMAIN log : log[x].t = "job" /\ log[x].x = job}

\* C11 -- One log block per attempted job: with logging enabled, every job
\* the driver has attempted and finished, also one that failed before the
\* tool was invoked, has exactly one block in the log.  Jobs whose block
\* append threw are left out, so that a violation is the driver's doing.
C11_BlockPerAttemptedJob ==
    (logFile # "" /\ ~options.disableLog) =>
        \A job \in 1..Len(results) :
            (\A t \in toolCalls : t.job = job => t.logged)
                => Cardinality(JobBlocks(job)) = 1

\* C12 -- Nothing is logged when logging is disabled: a BatchProcessor
\* constructed with disableLog = true writes no header, no job block and no
\* summary, whatever the other options are.
C12_NoLogWhenDisabled == options.disableLog => log = <<>>

LaterSteps ==
    {"sub", "globSub", "transform", "globVideo", "withTemp", "tool",
     "collect", "leaveTemp"}

\* C18 -- Sequential jobs and intra-job ordering.  Jobs are taken in order,
\* at most one job has no result yet, a job is started only after its
\* predecessor succeeded; and from the subtitle-source preparation on, no
\* font-source preparation of the job is in flight: the only request that
\* can be in flight is the awaited subtitle request, and every font
\* directory of the job is known.
C18_SequentialJobs ==
    /\ attempted = 1..Cardinality(attempted)
    /\ Cardinality(attempted) <= Len(results) + 1
    /\ \A j \in attempted :
          j > 1 => (j - 1 <= Len(results) /\ results[j - 1].success)
    /\ pc \in LaterSteps =>
          /\ i + 1 \in attempted
          /\ Len(results) = i
          /\ Len(actualFontDirs) >= 1
          /\ \A k \in DOMAIN actualFontDirs : actualFontDirs[k] # NoDir
          /\ \A k \in DOMAIN reqs :
                InFlight(reqs[k]) => (pc = "sub" /\ reqs[k].live /\ k = Len(reqs))

\* The second job, with two font sources prepared, is running the tool after
\* the first job succeeded.
C18_Witness ==
    /\ pc = "tool"
    /\ i = 1
    /\ results[1].success
    /\ Len(actualFontDirs) = 2

Lib == exEntry \in {"extractWith7z", "extractTarGzInVfs"}

\* C13 -- Mount teardown is unconditional: after every invocation of
\* extractWith7z or extractTarGzInVfs, whatever happened in the try block,
\* nothing the invocation mounted is still mounted and no directory it made
\* is left in the virtual file system.  Stated for the invocations whose
\* teardown calls were all accepted by the file system, so that a violation
\* is the doing of the teardown sequence.
C13_MountTeardown ==
    (Lib /\ exStage = "end" /\ ~exEnvFail) => (exMounts = {} /\ exDirs = {})

\* C14 -- tar.gz intermediate cardinality: the second stage is run only when
\* the intermediate area holds exactly one entry; with none or several the
\* extraction fails and nothing is extracted into the destination.
C14_IntermediateCardinality ==
    (exEntry = "extractTarGzInVfs" /\ exTarCount >= 0) =>
        /\ (exStage = "try" /\ Step = <<"callMain", "tar">>) => exTarCount = 1
        /\ exTarCount # 1 => (exErr # <<>> \/ exStage = "try") /\ DOMAIN exDest = {}

\* C15 -- Permission defect compensation: in an extraction performed by
\* extractWith7z or extractTarGzInVfs, an entry for which mode 0 was
\* requested keeps its prior mode, and a non-zero request is applied.
C15_ZeroModeIgnored ==
    Lib => \A n \in DOMAIN exDest :
              n[1] = "file" =>
                  LET f == exArchive.files[n[2]] IN
                  exDest[n] = (IF f.req = 0 THEN f.prior ELSE f.req)

\* A base name without its extension: what is left of the last dot, the whole
\* name when it has no extension.
Stem(name) == SubSeq(name, 1, Len(name) - Len(extname(name)))

\* C19 -- Output filename derivation: the output file name is the video
\* file's base name with its extension stripped, followed by the job's
\* output suffix, for every base name: with one extension, with several
\* dots, and with no extension.
C19_OutputFilename ==
    outputFilename # <<>> =>
        outputFilename = Stem(videoBasename) \o outputSuffix

\* The files a plain directory prepared with this allow-list is to hold.
Allowed(files, allowed) ==
    IF allowed = {} THEN files
    ELSE {f \in files :
            \E e \in allowed : toLowerCase(e) = toLowerCase(extname(f.name))}

\* C16 -- Extension-filtered copy: a plain directory prepared with a
\* non-empty allow-list is returned as a directory that holds exactly the
\* source files whose extension is, case-insensitively, in the allow-list,
\* each under its relative path; with no allow-list it holds every file.
C16_FilteredCopy ==
    (lastPrep.how \in {"hit", "miss"} /\ ~IsArchive(lastPrep.src)) =>
        dirFiles[lastPrep.dir] = Allowed(srcFiles, lastPrep.allowed)

\* C17 -- cleanup() resets the cache for reuse: while the root is
\* uninitialized the cache holds no mapping (getStats().cached is 0), and a
\* getOrPrepare call made after a cleanup() (a call the caller still
\* awaits) never returns a directory under a Cache Root an earlier
\* cleanup() was called on.
C17_CleanupResets ==
    /\ rootTempDir = 0 => cache = <<>>
    /\ \A k \in DOMAIN reqs :
          (reqs[k].live /\ reqs[k].pc = "done") =>
              reqs[k].dir[1] \notin cleaned

LoggingToGeneratedFile == ~options.disableLog /\ options.logFile = ""

\* C20 -- The batch log is created once per batch run: with logging enabled
\* and no explicit log path, every process() call that got past
\* initLogFile has written a header for that call, and every job block in
\* the log is preceded by the header of the call it belongs to.
C20_HeaderPerRun ==
    LoggingToGeneratedFile =>
        /\ pc \notin {"idle", "done"} =>
              \E h \in DOMAIN log : log[h].t = "header" /\ log[h].y = run
        /\ \A x \in DOMAIN log :
              log[x].t = "job" =>
                  \E h \in 1..(x - 1) :
                      log[h].t = "header" /\ log[h].y = log[x].z

\* C21 -- Download timeout: while a call of download() waits for the
\* network (the fetch or the body), a timer bounds the wait; a call that
\* returned normally was not aborted, a call that raised the timeout error
\* was aborted, a response with a non-success status raises the generic
\* transfer error unless the timer fired first, and no timer stays armed
\* once the call is over.
C21_DownloadTimeout ==
    /\ dlPc \in {"fetch", "pipe"} => dlTimer # "none"
    /\ dlResult = "ok" => ~dlAborted
    /\ dlResult = "timeout" => dlAborted
    /\ (dlPc = "done" /\ dlStatus = 404) => dlResult = "http"
    /\ dlPc = "done" => dlTimer # "armed"

\* C26 -- The allow-list is honoured on every request: the directory a
\* getOrPrepare call returns for a plain directory and a non-empty
\* allow-list holds every source file whose extension is in the list,
\* whatever calls were made on the cache before.
C26_AllowListHonoured ==
    (/\ lastPrep.how \in {"hit", "miss"}
     /\ ~IsArchive(lastPrep.src)
     /\ lastPrep.allowed # {}) =>
        Allowed(srcFiles, lastPrep.allowed) \subseteq dirFiles[lastPrep.dir]

TarGz == exEntry = "extractTarGzInVfs"
TarEntryInDest == \E n \in DOMAIN exDest : n[1] = "tar"
StageFailed(stage) == exErr # <<>> /\ exErr[1] = stage

\* What C23 says of the two stages while they run: the first stage writes
\* nothing into the destination, the second writes only after the first
\* returned 0 and left an entry, and a failed stage is reported with its
\* name and its non-zero status.
TwoStages ==
    /\ ~TarEntryInDest
    /\ exDest # <<>> => exTarCount >= 1
    /\ StageFailed("gzip") => (exDest = <<>> /\ exErr[2] # 0)
    /\ StageFailed("tar") => (exTarCount >= 1 /\ exErr[2] # 0)

\* C23 as stated -- tar.gz two-stage protocol, with the intermediate tar
\* entry gone from the intermediate area after the call on every outcome.
C23_TwoStage_AsStated ==
    TarGz => (TwoStages /\ (exStage = "end" => exTmp = {}))

\* C23 -- tar.gz two-stage protocol: the first stage writes only into the
\* intermediate area, the second runs only after the first returned 0, a
\* non-zero status fails the extraction with the stage and the status, and
\* after the call no intermediate tar entry is in the destination nor, unless
\* the virtual file system refused a teardown call, in the intermediate area.
C23_TwoStage ==
    TarGz => (TwoStages /\ ((exStage = "end" /\ ~exEnvFail) => exTmp = {}))

\* A tar.gz whose first stage left one entry and whose second stage failed
\* after writing a file: the teardown cleared the intermediate entry.
C23_Witness ==
    /\ TarGz /\ exStage = "end" /\ exTmp = {} /\ exTarCount = 1
    /\ exDest # <<>>
    /\ StageFailed("tar")

InLoop == pc \notin {"idle", "summary", "cleanup", "done"}

\* The counters of process() and the counts written to the summary.
Counters ==
    /\ successCount + failCount = Len(results)
    /\ Len(results) <= items
    /\ failCount \in {0, 1}
    /\ InLoop => failCount = 0
    /\ \A b \in SummaryBlocks :
          /\ b.z = items - b.x - b.y
          /\ b.z >= 0

OnlyPrepared ==
    /\ \A k \in DOMAIN cache : cache[k] \notin failedDirs
    /\ \A k \in DOMAIN reqs :
          (reqs[k].live /\ reqs[k].pc = "done") => reqs[k].dir \notin failedDirs
    /\ prepErr # NoError =>
          /\ prepErr.cause \in {"stat", "makeTempDir", "ensureDir", "extract"}
          /\ prepErr.message[2] \in Sources

\* C28 -- The cache maps only to fully prepared directories: a failed
\* extraction or copy stores no mapping, no later request receives its
\* directory, the error reaches the caller wrapped with description, path
\* and cause, and once cleanup() has run (no root is set) the partially
\* filled sub-directory is gone unless the removal of its root threw.
C28_OnlyPreparedCached ==
    /\ OnlyPrepared
    /\ rootTempDir = 0 =>
          \A d \in failedDirs : d \in fsSubDirs => d[1] \in rmFailed

DmgOrder == <<"create", "attach", "callback", "detach", "remove">>
Attempted(e) == \E x \in DOMAIN dmEvents : dmEvents[x] = e
Rank(e) == CHOOSE x \in DOMAIN DmgOrder : DmgOrder[x] = e

\* What C25 says of order and outcome: the events come in the order create,
\* attach, callback, detach, remove, each at most once; the callback is run
\* and the detach attempted exactly when the attach succeeded; a failed
\* attach raises the mount error with its cause; a failed detach is warned
\* about and the caller still gets what the callback completed with.
DmgScoping ==
    /\ \A x, y \in DOMAIN dmEvents :
          x < y => Rank(dmEvents[x]) < Rank(dmEvents[y])
    /\ Attempted("callback") => (Attempted("attach") /\ dmInner.kind # "mount error")
    /\ dmPc = "done" =>
          /\ Attempted("detach") <=> Attempted("callback")
          /\ (Attempted("attach") /\ ~Attempted("callback")) =>
                dmResult = Error("mount error", "hdiutil")
          /\ Attempted("callback") => dmResult = dmCallback.outcome
          /\ dmWarned => dmResult = dmCallback.outcome

\* C25 as stated -- withMountedDmg scoping order, with the temporary mount
\* point removed on every path.
C25_DmgScoping_AsStated ==
    /\ DmgScoping
    /\ dmPc = "done" => ~dmMountPoint

\* C25 -- withMountedDmg scoping order: create, attach, callback, detach,
\* remove; detach if and only if the attach succeeded; a failed attach raises
\* the mount error and the callback never runs; the removal of the mount
\* point is attempted on every path once it was created, and the mount point
\* is gone unless that removal threw; a failed detach is only warned about.
C25_DmgScoping ==
    /\ DmgScoping
    /\ dmPc = "done" =>
          /\ Attempted("attach") => Attempted("remove")
          /\ dmMountPoint => dmRmFailed

\* The callback returned a value, the detach failed and was warned about,
\* the mount point was removed, and the caller got the callback's value.
C25_Witness ==
    /\ dmPc = "done"
    /\ dmEvents = DmgOrder
    /\ dmWarned /\ ~dmMountPoint
    /\ dmResult = Value(2)

Before(e, x) == \E y \in 1..(x - 1) : ctEvents[y] = e

\* C22 -- Transform ordering: within a job the content transform is applied
\* to the subtitle file only after both the subtitle file and the video file
\* have been resolved, and a job that failed in the video glob has not
\* overwritten the subtitle file in the Prepared Directory.
C22_TransformOrdering ==
    /\ \A x \in DOMAIN ctEvents :
          ctEvents[x] = "transform" => (Before("subtitle", x) /\ Before("video", x))
    /\ \A x \in DOMAIN ctLog : ctLog[x].stage = "globVideo" => ~ctLog[x].wrote

\* C27 -- Transform input is the source text: every text handed to a job's
\* content transform is the text of the file in the subtitle source (no
\* transform has been applied to it), also when an earlier job transformed
\* the same file of a shared Prepared Directory.
C27_TransformInput == ctInputs \subseteq {0}

JobsSoFar == {ctLog[x].job : x \in DOMAIN ctLog} \cup (IF ctJob = NoJob THEN {} ELSE {ctJob})
SourcePaths == {j.font : j \in JobsSoFar} \cup {j.sub : j \in JobsSoFar}

\* The files under a place that were created, modified or deleted.
Changed(p) == (ctTree[p] \ InitialTree[p]) \cup (InitialTree[p] \ ctTree[p])

\* The file is at the final output path of a successful job.
FinalOutput(p, f) ==
    \E x \in DOMAIN ctLog :
        /\ ctLog[x].committed
        /\ ctLog[x].job.out = p
        /\ f.name = JobOutputName(ctLog[x].job)

\* A failed job has written nothing into its output directory.
FailedJobsWriteNothing ==
    \A x \in DOMAIN ctLog : ctLog[x].error # "" => ~ctLog[x].committed

====
